---- MODULE Spec2Model ----
(***************************************************************************)
(* Pyra: route matching (production manifest matcher and Router),          *)
(* middleware chain execution and route scanning.                          *)
(*                                                                         *)
(* Strings are sequences of one-character strings, so that split, join,    *)
(* startsWith and slice are computed character by character.               *)
(***************************************************************************)
EXTENDS Integers, Sequences, FiniteSets, TLC

VARIABLES
    routes,        \* the route entries handed to buildMatcher / createRouter, in order
    root,          \* production trie under construction (node key -> TrieNode)
    inserted,      \* number of entries the insertion loop of buildMatcher has processed
    router,        \* "none" | "collision" | "ready": outcome of createRouter
    routerRoot,    \* the Router's trie
    pathname,      \* the pathname of the request being matched (<<>> when none)
    prodResult,    \* <<>> before match, else <<MatchResult or Null>>
    routerResult,  \* <<>> before match, else <<MatchResult or Null>>
    chain,         \* runMiddleware: the middleware chain, outermost first
    index,         \* runMiddleware: the closure variable index
    stack,         \* runMiddleware: active calls, innermost last
    mwRuns,        \* number of invocations of each middleware of the chain
    nextCalls,     \* number of next() calls made by each middleware
    returned,      \* the middleware that returned, with whether that call used next()
    handlerRuns,   \* number of invocations of finalHandler
    response,      \* <<>> until runMiddleware's promise settles, else <<Response>>
    tree,          \* scanRoutes: the files below the routes directory
    scan,          \* scanRoutes: "none", or its outcome
    scanResult,    \* Router: the ScanResult handed to createRouter (routes, layouts)
    layoutMatch,   \* Router: <<>> before match, else <<{route, params, layouts} or Null>>
    cache,         \* buildCacheControlHeader: the route's cache config, or Null
    cacheControl,  \* buildCacheControlHeader: <<>> before the call, else <<header value>>
    dist,          \* the dist directory: manifest.json, modules of dist/server, files of dist/client
    server,        \* ProdServer: "none" | "failed" (constructor threw) | "constructed" | "listening"
    matcher,       \* ProdServer.matcher
    req,           \* handleRequest: the request in progress and its position
    res,           \* handleRequest: the Node ServerResponse
    events,        \* handleRequest: what happened while serving the request
    project,       \* build: the routes to prerender
    build,         \* build: position and data of the prerender pass
    moduleCache,   \* ProdServer.moduleCache: absolute path -> promise of import(), or Null
    imports,       \* the import() calls started, in order: the promise is the position
    callers,       \* the requests in flight: what each is awaiting
    handed         \* the promises that importModule calls have returned so far

matchVars == <<routes, root, inserted, router, routerRoot, pathname, prodResult, routerResult>>
mwVars == <<chain, index, stack, mwRuns, nextCalls, returned, handlerRuns, response>>
scanVars == <<tree, scan>>
layoutVars == <<scanResult, layoutMatch>>
cacheVars == <<cache, cacheControl>>
serveVars == <<dist, server, matcher, req, res, events>>
ssgVars == <<project, build>>
importVars == <<moduleCache, imports, callers, handed>>
addedVars == <<layoutVars, cacheVars, serveVars, ssgVars, importVars>>
vars == <<matchVars, mwVars, scanVars, addedVars>>

-----------------------------------------------------------------------------
(* Bounds of the model *)

MaxRoutes == 2
MaxPatLen == 2
MaxPathLen == 3

-----------------------------------------------------------------------------
(* Strings *)

Str(c) == <<c>>
SLASH == "/"

StartsWith(s, c) == Len(s) > 0 /\ s[1] = c
EndsWith(s, c) == Len(s) > 0 /\ s[Len(s)] = c

\* String.prototype.split(sep) for a one-character separator
RECURSIVE SplitFrom(_, _, _, _)
SplitFrom(s, sep, i, cur) ==
    IF i > Len(s) THEN <<cur>>
    ELSE IF s[i] = sep THEN <<cur>> \o SplitFrom(s, sep, i + 1, <<>>)
    ELSE SplitFrom(s, sep, i + 1, Append(cur, s[i]))

Split(s, sep) == SplitFrom(s, sep, 1, <<>>)

\* Array.prototype.filter(Boolean) on an array of strings: drops empty strings
RECURSIVE FilterBoolean(_)
FilterBoolean(a) ==
    IF a = <<>> THEN <<>>
    ELSE IF Head(a) = <<>> THEN FilterBoolean(Tail(a))
    ELSE <<Head(a)>> \o FilterBoolean(Tail(a))

\* Array.prototype.join(sep)
RECURSIVE Join(_, _)
Join(a, sep) ==
    IF a = <<>> THEN <<>>
    ELSE IF Len(a) = 1 THEN a[1]
    ELSE a[1] \o <<sep>> \o Join(Tail(a), sep)

\* value.slice(0, -1)
DropLast(s) == SubSeq(s, 1, Len(s) - 1)

\* splitSegments without the trailing-slash and empty-segment normalisation
splitSegments_LeadingSlashOnly(value) ==
    IF value = Str(SLASH) THEN <<>> ELSE Tail(Split(value, SLASH))

splitSegments(value) ==
    IF value = Str(SLASH) THEN <<>>
    ELSE LET normalized == IF EndsWith(value, SLASH) /\ value # Str(SLASH)
                           THEN DropLast(value) ELSE value
         IN FilterBoolean(Split(normalized, SLASH))

-----------------------------------------------------------------------------
(* Input universe: names, patterns, pathnames *)

StaticNames == {<<"a">>, <<"b">>}
ParamNames == {<<"x">>, <<"y">>}
PathSegs == {<<"a">>, <<"b">>}

InnerSegs == StaticNames \cup {<<":">> \o n : n \in ParamNames}
LastSegs == InnerSegs \cup {<<"*">> \o n : n \in ParamNames}

SeqsUpTo(S, n) == UNION {[1..k -> S] : k \in 0..n}

\* segment lists of patterns: a catch-all segment only in last position
PatternSegLists ==
    {<<>>} \cup
    {Append(p, l) : p \in SeqsUpTo(InnerSegs, MaxPatLen - 1), l \in LastSegs}

\* "/" for the root, otherwise "/" + segment for each segment
RECURSIVE PathOf(_)
PathOf(segs) ==
    IF segs = <<>> THEN <<>> ELSE <<SLASH>> \o Head(segs) \o PathOf(Tail(segs))

ToPath(segs) == IF segs = <<>> THEN Str(SLASH) ELSE PathOf(segs)

Patterns == {ToPath(s) : s \in PatternSegLists}

\* request pathnames, with and without a trailing slash
Pathnames ==
    LET plain == {ToPath(s) : s \in SeqsUpTo(PathSegs, MaxPathLen)}
    IN plain \cup {Append(p, SLASH) : p \in plain}

\* a manifest is a Record<id, entry>: ids are unique; entry.id is the key
RouteLists ==
    UNION {{[i \in 1..k |-> [id |-> i, pattern |-> f[i]]] : f \in [1..k -> Patterns]}
           : k \in 0..MaxRoutes}

DistinctPatterns(rs) ==
    \A i, j \in 1..Len(rs) : i # j => rs[i].pattern # rs[j].pattern

-----------------------------------------------------------------------------
(* Trie: a function from node keys to TrieNode records.  The key of a node  *)
(* is the list of edges from the root; the static children of a node are    *)
(* the nodes whose key extends it by a static edge.  null is the empty set, *)
(* a present value v is {v}.                                                *)

Null == {}
Some(v) == {v}
The(s) == CHOOSE v \in s : TRUE

StaticEdge(segment) == <<"s">> \o segment
DynamicEdge == <<"d">>
RootKey == <<>>

createTrieNode == [dynamicChild |-> Null, catchAllChild |-> Null, entry |-> Null]

EmptyTrie == (RootKey :> createTrieNode)

HasNode(trie, key) == key \in DOMAIN trie

\* the insertion loop body of buildMatcher for one entry, from segment i on
RECURSIVE InsertFrom(_, _, _, _, _)
InsertFrom(trie, current, segments, i, entry) ==
    IF i > Len(segments)
    THEN [trie EXCEPT ![current].entry = Some(entry)]
    ELSE LET segment == segments[i] IN
         IF StartsWith(segment, "*")
         THEN [trie EXCEPT ![current].catchAllChild =
                   Some([paramName |-> Tail(segment), entry |-> entry])]
         ELSE IF StartsWith(segment, ":")
         THEN LET child == Append(current, DynamicEdge)
                  t1 == IF trie[current].dynamicChild = Null
                        THEN [trie EXCEPT ![current].dynamicChild =
                                  Some([paramName |-> Tail(segment)])]
                             @@ (child :> createTrieNode)
                        ELSE trie
              IN InsertFrom(t1, child, segments, i + 1, entry)
         ELSE LET child == Append(current, StaticEdge(segment))
                  t1 == IF HasNode(trie, child) THEN trie
                        ELSE trie @@ (child :> createTrieNode)
              IN InsertFrom(t1, child, segments, i + 1, entry)

InsertEntry(trie, entry) ==
    InsertFrom(trie, RootKey, splitSegments(entry.pattern), 1, entry)

RECURSIVE InsertAll(_, _)
InsertAll(trie, rs) ==
    IF rs = <<>> THEN trie ELSE InsertAll(InsertEntry(trie, Head(rs)), Tail(rs))

\* params[name] = value ; delete params[name]
SetParam(params, name, value) ==
    [k \in DOMAIN params \cup {name} |-> IF k = name THEN value ELSE params[k]]
DeleteParam(params, name) ==
    [k \in DOMAIN params \ {name} |-> params[k]]

NoParams == [k \in {} |-> <<>>]

\* matchSegments with one step changed:
\*   "nobacktrack": the result of the static child is returned even when null
\*   "emptytail":   a catch-all also matches when no segment is left
RECURSIVE matchSegmentsChanged(_, _, _, _, _, _)
matchSegmentsChanged(change, trie, node, segments, idx, params) ==
    IF idx = Len(segments)
    THEN IF change = "emptytail" /\ trie[node].entry = Null
                                 /\ trie[node].catchAllChild # Null
         THEN [entry |-> Some(The(trie[node].catchAllChild).entry),
               params |-> SetParam(params, The(trie[node].catchAllChild).paramName, <<>>)]
         ELSE [entry |-> trie[node].entry, params |-> params]
    ELSE
      LET segment == segments[idx + 1]
          staticChild == Append(node, StaticEdge(segment))
          r1 == IF HasNode(trie, staticChild)
                THEN matchSegmentsChanged(change, trie, staticChild, segments,
                                          idx + 1, params)
                ELSE [entry |-> Null, params |-> params]
      IN IF r1.entry # Null \/ (change = "nobacktrack" /\ HasNode(trie, staticChild))
         THEN r1
         ELSE
           LET r2 == IF trie[node].dynamicChild # Null
                     THEN LET paramName == The(trie[node].dynamicChild).paramName
                              r == matchSegmentsChanged(change, trie,
                                       Append(node, DynamicEdge), segments, idx + 1,
                                       SetParam(r1.params, paramName, segment))
                          IN IF r.entry # Null THEN r
                             ELSE [entry |-> Null,
                                   params |-> DeleteParam(r.params, paramName)]
                     ELSE [entry |-> Null, params |-> r1.params]
           IN IF r2.entry # Null THEN r2
              ELSE IF trie[node].catchAllChild # Null
              THEN LET c == The(trie[node].catchAllChild)
                   IN [entry |-> Some(c.entry),
                       params |-> SetParam(r2.params, c.paramName,
                                     Join(SubSeq(segments, idx + 1, Len(segments)),
                                          SLASH))]
              ELSE [entry |-> Null, params |-> r2.params]

matchSegments_NoBacktrack(trie, node, segments, idx, params) ==
    matchSegmentsChanged("nobacktrack", trie, node, segments, idx, params)

matchSegments_EmptyTail(trie, node, segments, idx, params) ==
    matchSegmentsChanged("emptytail", trie, node, segments, idx, params)

\* matchSegments: idx (index in the source) is 0-based as in the source; the params object is
\* mutated in place, so the operator returns it together with the entry.
RECURSIVE matchSegments(_, _, _, _, _)
matchSegments(trie, node, segments, idx, params) ==
    IF idx = Len(segments)
    THEN [entry |-> trie[node].entry, params |-> params]
    ELSE
      LET segment == segments[idx + 1]
          staticChild == Append(node, StaticEdge(segment))
          r1 == IF HasNode(trie, staticChild)
                THEN matchSegments(trie, staticChild, segments, idx + 1, params)
                ELSE [entry |-> Null, params |-> params]
      IN IF r1.entry # Null THEN r1
         ELSE
           LET r2 == IF trie[node].dynamicChild # Null
                     THEN LET paramName == The(trie[node].dynamicChild).paramName
                              r == matchSegments(trie, Append(node, DynamicEdge), segments,
                                                 idx + 1,
                                                 SetParam(r1.params, paramName, segment))
                          IN IF r.entry # Null THEN r
                             ELSE [entry |-> Null,
                                   params |-> DeleteParam(r.params, paramName)]
                     ELSE [entry |-> Null, params |-> r1.params]
           IN IF r2.entry # Null THEN r2
              ELSE IF trie[node].catchAllChild # Null
              THEN LET c == The(trie[node].catchAllChild)
                   IN [entry |-> Some(c.entry),
                       params |-> SetParam(r2.params, c.paramName,
                                     Join(SubSeq(segments, idx + 1, Len(segments)),
                                          SLASH))]
              ELSE [entry |-> Null, params |-> r2.params]

\* match(pathname): Null, or Some([entry, params])
match(trie, p) ==
    LET r == matchSegments(trie, RootKey, splitSegments(p), 0, NoParams)
    IN IF r.entry = Null THEN Null
       ELSE Some([entry |-> The(r.entry), params |-> r.params])

buildMatcher(rs) == InsertAll(EmptyTrie, rs)

-----------------------------------------------------------------------------
(* Router (createRouter): same normalisation, trie and priority as the      *)
(* production matcher, over RouteNodes; construction rejects two routes     *)
(* with the same pattern.                                                   *)

createRouterNode == [dynamicChild |-> Null, catchAllChild |-> Null, route |-> Null]

routerSegments(p) ==
    LET stripped == IF p # Str(SLASH) /\ EndsWith(p, SLASH) THEN DropLast(p) ELSE p
    IN FilterBoolean(Split(stripped, SLASH))

\* a collision check that compares route ids instead of patterns
HasCollision_ById(rs) ==
    \E i, j \in 1..Len(rs) : i < j /\ rs[i].id = rs[j].id

HasCollision(rs) ==
    \E i, j \in 1..Len(rs) : i < j /\ rs[i].pattern = rs[j].pattern

RECURSIVE routerInsertFrom(_, _, _, _, _)
routerInsertFrom(trie, current, segments, i, route) ==
    IF i > Len(segments)
    THEN [trie EXCEPT ![current].route = Some(route)]
    ELSE LET segment == segments[i] IN
         IF StartsWith(segment, "*")
         THEN [trie EXCEPT ![current].catchAllChild =
                   Some([paramName |-> Tail(segment), route |-> route])]
         ELSE LET dyn == StartsWith(segment, ":")
                  child == Append(current, IF dyn THEN DynamicEdge ELSE StaticEdge(segment))
                  named == IF dyn /\ trie[current].dynamicChild = Null
                           THEN [trie EXCEPT ![current].dynamicChild =
                                     Some([paramName |-> Tail(segment)])]
                           ELSE trie
                  t1 == IF HasNode(named, child) THEN named
                        ELSE named @@ (child :> createRouterNode)
              IN routerInsertFrom(t1, child, segments, i + 1, route)

RECURSIVE routerInsertAll(_, _)
routerInsertAll(trie, rs) ==
    IF rs = <<>> THEN trie
    ELSE routerInsertAll(
             routerInsertFrom(trie, RootKey, routerSegments(Head(rs).pattern), 1, Head(rs)),
             Tail(rs))

\* createRouter: "collision" (throws) or the trie of the routes
createRouter(rs) ==
    IF HasCollision(rs)
    THEN [status |-> "collision", trie |-> (RootKey :> createRouterNode)]
    ELSE [status |-> "ready",
          trie |-> routerInsertAll((RootKey :> createRouterNode), rs)]

\* steps 2-6 of the matching algorithm: static, then dynamic with unbinding on
\* failure, then catch-all; a node's own route only when all segments are consumed
RECURSIVE routerMatchSegments(_, _, _, _, _)
routerMatchSegments(trie, node, segments, idx, params) ==
    IF idx = Len(segments)
    THEN [route |-> trie[node].route, params |-> params]
    ELSE
      LET segment == segments[idx + 1]
          staticChild == Append(node, StaticEdge(segment))
          viaStatic == IF HasNode(trie, staticChild)
                       THEN routerMatchSegments(trie, staticChild, segments, idx + 1, params)
                       ELSE [route |-> Null, params |-> params]
          viaDynamic ==
              IF trie[node].dynamicChild = Null
              THEN [route |-> Null, params |-> viaStatic.params]
              ELSE LET name == The(trie[node].dynamicChild).paramName
                       r == routerMatchSegments(trie, Append(node, DynamicEdge), segments,
                                idx + 1, SetParam(viaStatic.params, name, segment))
                   IN IF r.route # Null THEN r
                      ELSE [route |-> Null, params |-> DeleteParam(r.params, name)]
      IN IF viaStatic.route # Null THEN viaStatic
         ELSE IF viaDynamic.route # Null THEN viaDynamic
         ELSE IF trie[node].catchAllChild # Null
         THEN LET c == The(trie[node].catchAllChild)
              IN [route |-> Some(c.route),
                  params |-> SetParam(viaDynamic.params, c.paramName,
                                Join(SubSeq(segments, idx + 1, Len(segments)), SLASH))]
         ELSE [route |-> Null, params |-> viaDynamic.params]

routerMatch(trie, p) ==
    LET r == routerMatchSegments(trie, RootKey, routerSegments(p), 0, NoParams)
    IN IF r.route = Null THEN Null
       ELSE Some([route |-> The(r.route), params |-> r.params])

-----------------------------------------------------------------------------
(* State machine of route matching *)

NoPath == <<>>
Pending == <<>>
Done(v) == <<v>>

MatchStart ==
    /\ routes \in RouteLists
    /\ root = EmptyTrie
    /\ inserted = 0
    /\ router = "none"
    /\ routerRoot = (RootKey :> createRouterNode)
    /\ pathname = NoPath
    /\ prodResult = Pending
    /\ routerResult = Pending

\* one iteration of the insertion loop of buildMatcher
InsertRoute ==
    /\ inserted < Len(routes)
    /\ root' = InsertEntry(root, routes[inserted + 1])
    /\ inserted' = inserted + 1
    /\ UNCHANGED <<routes, router, routerRoot, pathname, prodResult, routerResult>>
    /\ UNCHANGED <<mwVars, scanVars, addedVars>>

CreateRouter ==
    /\ router = "none"
    /\ LET r == createRouter(routes)
       IN /\ router' = r.status
          /\ routerRoot' = r.trie
    /\ UNCHANGED <<routes, root, inserted, pathname, prodResult, routerResult>>
    /\ UNCHANGED <<mwVars, scanVars, addedVars>>

MatcherBuilt == inserted = Len(routes)
Answered ==
    /\ prodResult # Pending
    /\ router = "ready" => routerResult # Pending

\* a request arrives once both servers are constructed
Request(p) ==
    /\ MatcherBuilt
    /\ router # "none"
    /\ pathname = NoPath \/ Answered
    /\ pathname' = p
    /\ prodResult' = Pending
    /\ routerResult' = Pending
    /\ UNCHANGED <<routes, root, inserted, router, routerRoot>>
    /\ UNCHANGED <<mwVars, scanVars, addedVars>>

\* this.matcher.match(cleanUrl)
ProdMatch ==
    /\ pathname # NoPath
    /\ prodResult = Pending
    /\ prodResult' = Done(match(root, pathname))
    /\ UNCHANGED <<routes, root, inserted, router, routerRoot, pathname, routerResult>>
    /\ UNCHANGED <<mwVars, scanVars, addedVars>>

\* router.match(pathname)
RouterMatch ==
    /\ pathname # NoPath
    /\ router = "ready"
    /\ routerResult = Pending
    /\ routerResult' = Done(routerMatch(routerRoot, pathname))
    /\ UNCHANGED <<routes, root, inserted, router, routerRoot, pathname, prodResult>>
    /\ UNCHANGED <<mwVars, scanVars, addedVars>>

Receive == \E p \in Pathnames : Request(p)

MatchNext ==
    \/ InsertRoute
    \/ CreateRouter
    \/ Receive
    \/ ProdMatch
    \/ RouterMatch

\* the matching part at rest, for the specifications of the other parts
MatchIdle ==
    /\ routes = <<>>
    /\ root = EmptyTrie
    /\ inserted = 0
    /\ router = "none"
    /\ routerRoot = (RootKey :> createRouterNode)
    /\ pathname = NoPath
    /\ prodResult = Pending
    /\ routerResult = Pending

-----------------------------------------------------------------------------
(* runMiddleware(chain, context, finalHandler)                              *)
(*                                                                          *)
(* A call in progress is a frame on the stack: the call of runMiddleware    *)
(* itself, a middleware of the chain, or finalHandler.  A middleware is     *)
(* user code: each time it runs it may call next() (any number of times up  *)
(* to MaxNextCalls) and then returns a Response, its own or one that a      *)
(* next() call gave it.  A call of next() is followed to its result before  *)
(* the calling middleware goes on (the middleware awaits it).               *)

MaxChain == 3
MaxNextCalls == 2

Caller == -1
FinalHandler == 0

Frame(who) == [mw |-> who, calls |-> 0, got |-> {}]
Top == stack[Len(stack)]
Pop(st) == SubSeq(st, 1, Len(st) - 1)

\* the Response a frame produces by itself
OwnResponse(who) == [by |-> who]

MwStart ==
    /\ chain \in {[i \in 1..n |-> i] : n \in 0..MaxChain}
    /\ index = 0
    /\ stack = <<Frame(Caller)>>
    /\ mwRuns = [i \in 1..Len(chain) |-> 0]
    /\ nextCalls = [i \in 1..Len(chain) |-> 0]
    /\ returned = {}
    /\ handlerRuns = 0
    /\ response = <<>>

MwIdle ==
    /\ chain = <<>>
    /\ index = 0
    /\ stack = <<>>
    /\ mwRuns = <<>>
    /\ nextCalls = <<>>
    /\ returned = {}
    /\ handlerRuns = 0
    /\ response = <<>>

\* next(), called by the frame on top of the stack
next ==
    LET calling == [stack EXCEPT ![Len(stack)].calls = @ + 1]
    IN IF index >= Len(chain)
       THEN /\ stack' = Append(calling, Frame(FinalHandler))
            /\ handlerRuns' = handlerRuns + 1
            /\ UNCHANGED <<index, mwRuns>>
       ELSE LET mw == chain[index + 1]
            IN /\ index' = index + 1
               /\ stack' = Append(calling, Frame(mw))
               /\ mwRuns' = [mwRuns EXCEPT ![mw] = @ + 1]
               /\ UNCHANGED handlerRuns

\* a frame returns r to the frame that called next()
ReturnToCaller(r) ==
    stack' = [Pop(stack) EXCEPT ![Len(stack) - 1].got = @ \cup {r}]

\* runMiddleware: return next()
RunMiddleware ==
    /\ stack # <<>>
    /\ Top.mw = Caller
    /\ Top.calls = 0
    /\ next
    /\ UNCHANGED <<chain, nextCalls, returned, response>>
    /\ UNCHANGED <<matchVars, scanVars, addedVars>>

\* a running middleware calls next()
MiddlewareCallsNext ==
    /\ stack # <<>>
    /\ Top.mw \in 1..Len(chain)
    /\ Top.calls < MaxNextCalls
    /\ next
    /\ nextCalls' = [nextCalls EXCEPT ![Top.mw] = @ + 1]
    /\ UNCHANGED <<chain, returned, response>>
    /\ UNCHANGED <<matchVars, scanVars, addedVars>>

\* a running middleware returns a Response: its own, or one it got from next()
MiddlewareReturns ==
    /\ stack # <<>>
    /\ Top.mw \in 1..Len(chain)
    /\ \E r \in {OwnResponse(Top.mw)} \cup Top.got :
          /\ ReturnToCaller(r)
          /\ returned' = returned \cup
                 {[mw |-> Top.mw, calledNext |-> Top.calls > 0, res |-> r]}
    /\ UNCHANGED <<chain, index, mwRuns, nextCalls, handlerRuns, response>>
    /\ UNCHANGED <<matchVars, scanVars, addedVars>>

\* finalHandler returns the route's Response
HandlerReturns ==
    /\ stack # <<>>
    /\ Top.mw = FinalHandler
    /\ ReturnToCaller(OwnResponse(FinalHandler))
    /\ UNCHANGED <<chain, index, mwRuns, nextCalls, returned, handlerRuns, response>>
    /\ UNCHANGED <<matchVars, scanVars, addedVars>>

\* the promise returned by runMiddleware settles with what the first next() gave
Settle ==
    /\ stack # <<>>
    /\ Top.mw = Caller
    /\ Top.calls = 1
    /\ \E r \in Top.got : response' = <<r>>
    /\ stack' = <<>>
    /\ UNCHANGED <<chain, index, mwRuns, nextCalls, returned, handlerRuns>>
    /\ UNCHANGED <<matchVars, scanVars, addedVars>>

MwNext ==
    \/ RunMiddleware
    \/ MiddlewareCallsNext
    \/ MiddlewareReturns
    \/ HandlerReturns
    \/ Settle

-----------------------------------------------------------------------------
(* scanRoutes(routesDir)                                                    *)
(*                                                                          *)
(* The routes directory is a set of files, each in a directory given by its *)
(* path of directory names below the routes root.  The scanner walks the    *)
(* directories from the root, carrying the middleware files found on the    *)
(* way down, and derives id and pattern from the directory path.            *)

MaxDepth == 2
MaxFiles == 4

\* directory names in readdir order
DirNames == << <<"(", "g", ")">>, <<"[", "x", "]">>, <<"a">> >>
FileKinds == {"page", "route", "middleware"}

DirsUpTo(n) == UNION {[1..k -> {DirNames[i] : i \in 1..Len(DirNames)}] : k \in 0..n}
AllFiles == {[dir |-> d, kind |-> k] : d \in DirsUpTo(MaxDepth), k \in FileKinds}

RECURSIVE SubsetsUpTo(_, _)
SubsetsUpTo(S, n) ==
    IF n = 0 THEN {{}}
    ELSE LET smaller == SubsetsUpTo(S, n - 1)
         IN smaller \cup {t \cup {x} : t \in smaller, x \in S}

IsPrefix(p, d) == Len(p) <= Len(d) /\ SubSeq(d, 1, Len(p)) = p

HasFile(files, dir, kind) == [dir |-> dir, kind |-> kind] \in files
DirExists(files, dir) == \E f \in files : IsPrefix(dir, f.dir)

\* (name): a route group, left out of id and pattern
IsGroup(name) == StartsWith(name, "(") /\ EndsWith(name, ")")
IsBracketed(name) == StartsWith(name, "[") /\ EndsWith(name, "]")
\* [...name]
IsCatchAllDir(name) ==
    IsBracketed(name) /\ Len(name) > 5 /\ SubSeq(name, 2, 4) = <<".", ".", ".">>
\* [name]
IsDynamicDir(name) == IsBracketed(name) /\ ~IsCatchAllDir(name)

\* [name] -> :name, [...name] -> *name, anything else unchanged
PatternSegment(name) ==
    IF IsCatchAllDir(name) THEN <<"*">> \o SubSeq(name, 5, Len(name) - 1)
    ELSE IF IsDynamicDir(name) THEN <<":">> \o SubSeq(name, 2, Len(name) - 1)
    ELSE name

RECURSIVE WithoutGroups(_)
WithoutGroups(dir) ==
    IF dir = <<>> THEN <<>>
    ELSE IF IsGroup(Head(dir)) THEN WithoutGroups(Tail(dir))
    ELSE <<Head(dir)>> \o WithoutGroups(Tail(dir))

RouteId(dir) == ToPath(WithoutGroups(dir))
RoutePattern(dir) ==
    LET segs == WithoutGroups(dir)
    IN ToPath([i \in 1..Len(segs) |-> PatternSegment(segs[i])])

RouteParams(dir) ==
    LET segs == WithoutGroups(dir)
        named == {i \in 1..Len(segs) : IsBracketed(segs[i])}
    IN [k \in 1..Cardinality(named) |->
           LET i == CHOOSE j \in named : Cardinality({m \in named : m <= j}) = k
           IN Tail(PatternSegment(segs[i]))]

RouteNode(dir, type, middlewarePaths) ==
    [id |-> RouteId(dir),
     pattern |-> RoutePattern(dir),
     type |-> type,
     dir |-> dir,
     params |-> RouteParams(dir),
     catchAll |-> \E i \in 1..Len(dir) : IsCatchAllDir(dir[i]),
     middlewarePaths |-> middlewarePaths]

\* the walk of one directory and of its subdirectories in readdir order;
\* shared = TRUE is the walk with one middleware list shared by all directories
RECURSIVE WalkDir(_, _, _, _)
RECURSIVE WalkChildren(_, _, _, _, _)
WalkDir(shared, files, dir, inherited) ==
    LET middlewarePaths == IF HasFile(files, dir, "middleware")
                           THEN Append(inherited, dir) ELSE inherited
        here == IF HasFile(files, dir, "page")
                THEN <<RouteNode(dir, "page", middlewarePaths)>>
                ELSE IF HasFile(files, dir, "route")
                THEN <<RouteNode(dir, "api", middlewarePaths)>>
                ELSE <<>>
    IN IF HasFile(files, dir, "page") /\ HasFile(files, dir, "route")
       THEN [error |-> Some([kind |-> "page-and-api", dir |-> dir]),
             routes |-> <<>>, middleware |-> middlewarePaths]
       ELSE LET below == WalkChildren(shared, files, dir, 1, middlewarePaths)
            IN [error |-> below.error,
                routes |-> here \o below.routes,
                middleware |-> below.middleware]

WalkChildren(shared, files, dir, k, inherited) ==
    IF k > Len(DirNames)
    THEN [error |-> Null, routes |-> <<>>, middleware |-> inherited]
    ELSE LET child == Append(dir, DirNames[k])
             first == IF DirExists(files, child)
                      THEN WalkDir(shared, files, child, inherited)
                      ELSE [error |-> Null, routes |-> <<>>, middleware |-> inherited]
         IN IF first.error # Null THEN first
            ELSE LET rest == WalkChildren(shared, files, dir, k + 1,
                                 IF shared THEN first.middleware ELSE inherited)
                 IN [error |-> rest.error,
                     routes |-> first.routes \o rest.routes,
                     middleware |-> rest.middleware]

WalkRoutes_SharedList(files) == WalkDir(TRUE, files, <<>>, <<>>)

WalkRoutes(files) == WalkDir(FALSE, files, <<>>, <<>>)

\* two routes from different directories with the same pattern
PatternCollisions_ByDirectory(rs) ==
    {<<i, j>> \in (1..Len(rs)) \X (1..Len(rs)) :
        i < j /\ rs[i].dir = rs[j].dir}

PatternCollisions(rs) ==
    {<<i, j>> \in (1..Len(rs)) \X (1..Len(rs)) :
        i < j /\ rs[i].pattern = rs[j].pattern}

scanRoutes(files) ==
    LET walked == WalkRoutes(files)
    IN IF walked.error # Null
       THEN [status |-> "error", error |-> The(walked.error).kind, routes |-> <<>>]
       ELSE IF PatternCollisions(walked.routes) # {}
       THEN [status |-> "error", error |-> "collision", routes |-> <<>>]
       ELSE [status |-> "ok", error |-> "", routes |-> walked.routes]

NotScanned == [status |-> "none", error |-> "", routes |-> <<>>]

ScanStart ==
    /\ tree \in SubsetsUpTo(AllFiles, MaxFiles)
    /\ scan = NotScanned

ScanIdle ==
    /\ tree = {}
    /\ scan = NotScanned

ScanRoutes ==
    /\ scan = NotScanned
    /\ scan' = scanRoutes(tree)
    /\ UNCHANGED tree
    /\ UNCHANGED <<matchVars, mwVars, addedVars>>

ScanNext == ScanRoutes

-----------------------------------------------------------------------------
(* Route matching: properties *)

\* the non-empty parts of a pathname between slashes
PathSegments(p) == FilterBoolean(Split(p, SLASH))

IsCatchAllSeg(seg) == StartsWith(seg, "*")
IsDynamicSeg(seg) == StartsWith(seg, ":")
IsStaticSeg(seg) == ~IsCatchAllSeg(seg) /\ ~IsDynamicSeg(seg)
HasCatchAll(pat) == \E i \in 1..Len(pat) : IsCatchAllSeg(pat[i])
IsStaticPattern(pattern) ==
    \A i \in 1..Len(PathSegments(pattern)) : IsStaticSeg(PathSegments(pattern)[i])

\* a pathname fits a pattern: same number of segments and equal static segments,
\* or, with a catch-all, the prefix followed by at least one more segment
Fits(pattern, p) ==
    LET pat == PathSegments(pattern)
        segs == PathSegments(p)
        n == IF HasCatchAll(pat) THEN Len(pat) - 1 ELSE Len(pat)
    IN /\ IF HasCatchAll(pat) THEN Len(segs) > n ELSE Len(segs) = n
       /\ \A i \in 1..n : IsStaticSeg(pat[i]) => segs[i] = pat[i]

\* the params a pattern declares, bound on the segments of a pathname that fits it
ExpectedParams(pattern, p) ==
    LET pat == PathSegments(pattern)
        segs == PathSegments(p)
        named == {i \in 1..Len(pat) : ~IsStaticSeg(pat[i])}
        last(name) == CHOOSE i \in named :
                          /\ Tail(pat[i]) = name
                          /\ \A j \in named : Tail(pat[j]) = name => j <= i
    IN [name \in {Tail(pat[i]) : i \in named} |->
           IF IsCatchAllSeg(pat[last(name)])
           THEN Join(SubSeq(segs, last(name), Len(segs)), SLASH)
           ELSE segs[last(name)]]

\* position of a pattern in the trie: its segments with parameter names erased
Shape(pattern) ==
    LET pat == PathSegments(pattern)
    IN [i \in 1..Len(pat) |->
           IF IsStaticSeg(pat[i]) THEN pat[i] ELSE <<pat[i][1]>>]

DistinctShapes(rs) ==
    \A i, j \in 1..Len(rs) : i # j => Shape(rs[i].pattern) # Shape(rs[j].pattern)

Orderings(rs) ==
    {[i \in 1..Len(rs) |-> rs[f[i]]] :
        f \in {g \in [1..Len(rs) -> 1..Len(rs)] :
                   \A i, j \in 1..Len(rs) : i # j => g[i] # g[j]}}

RouteIdOf(m) == IF m = Null THEN Null ELSE Some(The(m).entry.id)

ProdMatched == prodResult # Pending
ProdHit == ProdMatched /\ prodResult[1] # Null
ProdMiss == ProdMatched /\ prodResult[1] = Null

\* C1 (as claimed): with pairwise distinct patterns, the route that match returns
\* does not depend on the order in which the routes were given to buildMatcher.
C1_OrderIndependent ==
    (ProdMatched /\ DistinctPatterns(routes)) =>
        \A rs \in Orderings(routes) :
            RouteIdOf(match(buildMatcher(rs), pathname)) = RouteIdOf(prodResult[1])

C3_ParamsOfMatchedRoute ==
    (ProdHit /\ DistinctShapes(routes)) =>
        The(prodResult[1]).params =
            ExpectedParams(The(prodResult[1]).entry.pattern, pathname)

\* C4: createRouter throws a collision exactly when two routes of the list have
\* the same pattern (their ids always differ); it succeeds otherwise.
C4_CollisionIffSamePattern ==
    (router # "none") =>
        (router = "collision" <=> ~DistinctPatterns(routes))

C4_Witness ==
    /\ router = "collision"
    /\ Len(routes) = 2
    /\ routes[1].id # routes[2].id

\* C5: a route that match returns fits the pathname.
C5_MatchedRouteFits ==
    ProdHit => Fits(The(prodResult[1]).entry.pattern, pathname)

C5_Witness ==
    /\ ProdHit
    /\ HasCatchAll(PathSegments(The(prodResult[1]).entry.pattern))
    /\ Len(PathSegments(pathname)) > Len(PathSegments(The(prodResult[1]).entry.pattern))
    /\ \E i \in 1..Len(routes) :
          PathSegments(routes[i].pattern) =
              SubSeq(PathSegments(pathname), 1, Len(PathSegments(routes[i].pattern)))

\* C6: match returns null only when no registered pattern fits the pathname
\* (a pathname that some registered pattern fits is always matched).
C6_NullOnlyIfNothingFits ==
    ProdMiss => \A i \in 1..Len(routes) : ~Fits(routes[i].pattern, pathname)

\* a static branch dead-ends and the sibling dynamic branch or a catch-all matches
C6_Witness ==
    /\ ProdHit
    /\ Len(PathSegments(pathname)) >= 2
    /\ HasNode(root, <<StaticEdge(PathSegments(pathname)[1])>>)
    /\ ~IsStaticSeg(PathSegments(The(prodResult[1]).entry.pattern)[1])

\* C7: for a registered static pattern P, match(P + "/") returns what match(P)
\* returns, the route of pattern P with no params; "/" matches the root route.
C7_TrailingSlash ==
    \A i \in 1..Len(routes) :
        (/\ ProdMatched
         /\ IsStaticPattern(routes[i].pattern)
         /\ pathname \in {routes[i].pattern, Append(routes[i].pattern, SLASH)}) =>
            /\ prodResult[1] # Null
            /\ The(prodResult[1]).entry.pattern = routes[i].pattern
            /\ The(prodResult[1]).params = NoParams
            /\ prodResult[1] = match(root, routes[i].pattern)

C7_Witness ==
    /\ ProdHit
    /\ \E i \in 1..Len(routes) :
          /\ IsStaticPattern(routes[i].pattern)
          /\ Len(PathSegments(routes[i].pattern)) = 2
          /\ pathname = Append(routes[i].pattern, SLASH)

-----------------------------------------------------------------------------
(* runMiddleware: properties *)

\* C8 (as claimed): middleware run in chain order, each only after the previous
\* one called next(); finalHandler runs only after every middleware called next();
\* once a middleware returned without calling next(), no later middleware and no
\* finalHandler has run; the response is the one the outermost middleware returned.
C8_ChainOrderAndShortCircuit ==
    /\ \A i \in 2..Len(chain) : mwRuns[chain[i]] > 0 => nextCalls[chain[i - 1]] > 0
    /\ handlerRuns > 0 => \A i \in 1..Len(chain) : nextCalls[chain[i]] > 0
    /\ \A rec \in returned :
          ~rec.calledNext =>
              /\ handlerRuns = 0
              /\ \A j \in 1..Len(chain) : chain[j] > rec.mw => mwRuns[chain[j]] = 0
    /\ (response # <<>> /\ chain # <<>>) =>
          \E rec \in returned : rec.mw = chain[1] /\ rec.res = response[1]

\* the same statement for runs in which no middleware has called next() twice
NextCalledAtMostOnce == \A i \in 1..Len(chain) : nextCalls[chain[i]] <= 1
C8_WhenNextCalledAtMostOnce == NextCalledAtMostOnce => C8_ChainOrderAndShortCircuit

-----------------------------------------------------------------------------
(* scanRoutes: properties *)

Scanned == scan.status # "none"
ScanOk == scan.status = "ok"

MiddlewareDirs(files) == {f.dir : f \in {g \in files : g.kind = "middleware"}}

\* C9: middlewarePaths of a scanned route lists exactly the middleware files of
\* the routes root and of the directories down to the route's own directory,
\* outermost first; a middleware file of any other directory is not listed.
C9_MiddlewareOfAncestorsOnly ==
    ScanOk =>
        \A i \in 1..Len(scan.routes) :
            LET r == scan.routes[i]
                mp == r.middlewarePaths
            IN /\ \A k \in 1..Len(mp) :
                      mp[k] \in MiddlewareDirs(tree) /\ IsPrefix(mp[k], r.dir)
               /\ \A d \in MiddlewareDirs(tree) :
                      IsPrefix(d, r.dir) => \E k \in 1..Len(mp) : mp[k] = d
               /\ \A j, k \in 1..Len(mp) : j < k => Len(mp[j]) < Len(mp[k])

\* a route below two middleware files, next to a directory with its own middleware
C9_Witness ==
    /\ ScanOk
    /\ \E i \in 1..Len(scan.routes) :
          /\ Len(scan.routes[i].middlewarePaths) = 2
          /\ \E d \in MiddlewareDirs(tree) : ~IsPrefix(d, scan.routes[i].dir)

PageAndApiInOneDir(files) ==
    \E d \in DirsUpTo(MaxDepth) : HasFile(files, d, "page") /\ HasFile(files, d, "route")

IsRouteFile(f) == f.kind \in {"page", "route"}

SamePatternInTwoDirs(files) ==
    \E f, g \in files :
        /\ IsRouteFile(f) /\ IsRouteFile(g)
        /\ f.dir # g.dir
        /\ RoutePattern(f.dir) = RoutePattern(g.dir)

\* C10: scanRoutes fails when a directory holds both a page and an API route
\* file, and when two directories resolve to the same pattern; the failure for
\* two directories with the same pattern is a "collision" error.
C10_ScanFailsOnConflicts ==
    Scanned =>
        /\ PageAndApiInOneDir(tree) => scan.status = "error"
        /\ SamePatternInTwoDirs(tree) => scan.status = "error"
        /\ (SamePatternInTwoDirs(tree) /\ ~PageAndApiInOneDir(tree)) =>
               scan.error = "collision"

C10_Witness ==
    /\ scan.status = "error"
    /\ scan.error = "collision"
    /\ \E f, g \in tree :
          /\ f.kind = "page" /\ g.kind = "route"
          /\ Len(f.dir) = 2 /\ Len(g.dir) = 1

-----------------------------------------------------------------------------
(* Router: the layout chain of a matched route.  The ScanResult carries the *)
(* routes and the ScannedLayouts; Router.match answers {route, params,      *)
(* layouts}.                                                                *)

MaxLayouts == 3

\* directories of the routes tree that may hold a page or a layout
LayoutDirs ==
    {<<>>,
     <<Str("a")>>, <<<<"a", "b">>>>, <<<<"[", "x", "]">>>>,
     <<Str("a"), Str("a")>>, <<Str("a"), <<"a", "b">>>>, <<Str("a"), <<"[", "x", "]">>>>,
     <<Str("a"), <<"[", "x", "]">>, Str("a")>>}

ScannedLayout(dir) == [id |-> RouteId(dir)]
ScannedRoute(dir) == [id |-> RouteId(dir), pattern |-> RoutePattern(dir)]

\* sequences without repetition of at most n elements of S
DistinctSeqs(S, n) ==
    {q \in SeqsUpTo(S, n) : \A i, j \in 1..Len(q) : i < j => q[i] # q[j]}

ScanResults ==
    {[routes |-> <<ScannedRoute(r)>>, layouts |-> ls] :
        r \in LayoutDirs,
        ls \in DistinctSeqs({ScannedLayout(d) : d \in LayoutDirs}, MaxLayouts)}

LayoutPathnames == {ToPath(s) : s \in SeqsUpTo({Str("a"), <<"a", "b">>}, 3)}

\* the ids of the directories from the routing root down to the route's own:
\* "/a/[x]" gives "/", "/a", "/a/[x]"
AncestorIds(id) ==
    LET segs == FilterBoolean(Split(id, SLASH))
    IN [k \in 1..(Len(segs) + 1) |-> ToPath(SubSeq(segs, 1, k - 1))]

\* the layouts found for the listed ids, in the order of the ids
RECURSIVE LayoutsOf(_, _)
LayoutsOf(layouts, ids) ==
    IF ids = <<>> THEN <<>>
    ELSE LET found == {i \in 1..Len(layouts) : layouts[i].id = Head(ids)}
         IN (IF found = {} THEN <<>> ELSE <<layouts[CHOOSE i \in found : TRUE]>>)
            \o LayoutsOf(layouts, Tail(ids))

\* a chain that holds the nearest layout only
resolveLayouts_NearestOnly(layouts, route) ==
    LET all == LayoutsOf(layouts, AncestorIds(route.id))
    IN IF all = <<>> THEN <<>> ELSE <<all[Len(all)]>>

\* step 7 of Router.match: the layouts from the routing root down to the route
resolveLayouts(layouts, route) == LayoutsOf(layouts, AncestorIds(route.id))

\* Router.match(pathname) of the Router built by createRouter(scanResult)
RouterMatchLayouts(sr, p) ==
    LET m == routerMatch(createRouter(sr.routes).trie, p)
    IN IF m = Null THEN Null
       ELSE Some([route |-> The(m).route, params |-> The(m).params,
                  layouts |-> resolveLayouts(sr.layouts, The(m).route)])

LayoutStart ==
    /\ scanResult \in ScanResults
    /\ layoutMatch = Pending

LayoutIdle ==
    /\ scanResult = [routes |-> <<>>, layouts |-> <<>>]
    /\ layoutMatch = Pending

MatchWithLayouts(p) ==
    /\ layoutMatch' = Done(RouterMatchLayouts(scanResult, p))
    /\ UNCHANGED scanResult
    /\ UNCHANGED <<matchVars, mwVars, scanVars, cacheVars, serveVars, ssgVars, importVars>>

LayoutRequest == \E p \in LayoutPathnames : MatchWithLayouts(p)

LayoutNext == LayoutRequest

\* C11: every successful Router.match lists exactly the ScannedLayouts whose id is
\* the matched route's id or an ancestor of it, outermost first (the nearest layout
\* last), and the empty list when no layout applies
IsSelfOrAncestorId(a, r) ==
    \/ a = r
    \/ a = Str(SLASH)
    \/ /\ Len(a) < Len(r)
       /\ SubSeq(r, 1, Len(a)) = a
       /\ r[Len(a) + 1] = SLASH

LayoutMatched == layoutMatch # Pending /\ layoutMatch[1] # Null

C11_LayoutChain ==
    LayoutMatched =>
        LET m == The(layoutMatch[1])
            ls == m.layouts
        IN /\ {ls[i] : i \in 1..Len(ls)} =
                  {scanResult.layouts[i] : i \in
                      {j \in 1..Len(scanResult.layouts) :
                          IsSelfOrAncestorId(scanResult.layouts[j].id, m.route.id)}}
           /\ \A i, j \in 1..Len(ls) : i < j => Len(ls[i].id) < Len(ls[j].id)

\* a route under a dynamic directory matched with three layouts above it, of which
\* the scan lists the innermost first
C11_Witness ==
    /\ LayoutMatched
    /\ Len(The(layoutMatch[1]).layouts) = 3
    /\ scanResult.layouts[1].id = The(layoutMatch[1]).route.id
    /\ The(layoutMatch[1]).params # NoParams

-----------------------------------------------------------------------------
(* Cache-Control of a page response: buildCacheControlHeader(entry.cache)   *)

NoCacheValue == <<"n", "o", "-", "c", "a", "c", "h", "e">>
PublicValue == <<"p", "u", "b", "l", "i", "c">>
MaxAgeName == <<"m", "a", "x", "-", "a", "g", "e">>
SMaxAgeName == <<"s", "-", "m", "a", "x", "a", "g", "e">>
StaleName ==
    <<"s", "t", "a", "l", "e", "-", "w", "h", "i", "l", "e", "-",
      "r", "e", "v", "a", "l", "i", "d", "a", "t", "e">>

\* the fields of a CacheConfig, each optional; values in seconds
CacheFields == {"maxAge", "sMaxAge", "staleWhileRevalidate"}
CacheSeconds == {0, 5, 60, 3600}
CacheConfigs == UNION {[fs -> CacheSeconds] : fs \in SUBSET CacheFields}

Digits == <<"0", "1", "2", "3", "4", "5", "6", "7", "8", "9">>

\* `${n}` for a non-negative integer
RECURSIVE NumberToString(_)
NumberToString(n) ==
    IF n < 10 THEN <<Digits[n + 1]>>
    ELSE Append(NumberToString(n \div 10), Digits[(n % 10) + 1])

\* `${name}=${value}`
Directive(name, value) == name \o <<"=">> \o NumberToString(value)

\* parts.join(", ")
RECURSIVE JoinCommaSpace(_)
JoinCommaSpace(parts) ==
    IF parts = <<>> THEN <<>>
    ELSE IF Len(parts) = 1 THEN parts[1]
    ELSE parts[1] \o <<",", " ">> \o JoinCommaSpace(Tail(parts))

\* a header that tests the fields for truthiness instead of !== undefined
buildCacheControlHeader_TruthyFields(c) ==
    IF c = Null THEN NoCacheValue
    ELSE LET cfg == The(c)
             has(f) == f \in DOMAIN cfg /\ cfg[f] # 0
             parts == <<PublicValue>>
                 \o (IF has("maxAge") THEN <<Directive(MaxAgeName, cfg["maxAge"])>> ELSE <<>>)
                 \o (IF has("sMaxAge") THEN <<Directive(SMaxAgeName, cfg["sMaxAge"])>> ELSE <<>>)
                 \o (IF has("staleWhileRevalidate")
                     THEN <<Directive(StaleName, cfg["staleWhileRevalidate"])>> ELSE <<>>)
         IN IF Len(parts) = 1 THEN NoCacheValue ELSE JoinCommaSpace(parts)

buildCacheControlHeader(c) ==
    IF c = Null THEN NoCacheValue
    ELSE LET cfg == The(c)
             has(f) == f \in DOMAIN cfg
             parts == <<PublicValue>>
                 \o (IF has("maxAge") THEN <<Directive(MaxAgeName, cfg["maxAge"])>> ELSE <<>>)
                 \o (IF has("sMaxAge") THEN <<Directive(SMaxAgeName, cfg["sMaxAge"])>> ELSE <<>>)
                 \o (IF has("staleWhileRevalidate")
                     THEN <<Directive(StaleName, cfg["staleWhileRevalidate"])>> ELSE <<>>)
         IN IF Len(parts) = 1 THEN NoCacheValue ELSE JoinCommaSpace(parts)

CacheStart ==
    /\ cache \in {Null} \cup {Some(c) : c \in CacheConfigs}
    /\ cacheControl = Pending

CacheIdle ==
    /\ cache = Null
    /\ cacheControl = Pending

\* the Cache-Control header of the page response of a route with this cache config
BuildCacheControl ==
    /\ cacheControl = Pending
    /\ cacheControl' = Done(buildCacheControlHeader(cache))
    /\ UNCHANGED cache
    /\ UNCHANGED <<matchVars, mwVars, scanVars, layoutVars, serveVars, ssgVars, importVars>>

CacheNext == BuildCacheControl

\* reading a header value back: its directives, and the number a directive carries
HeaderParts(h) ==
    LET raw == Split(h, ",")
    IN [i \in 1..Len(raw) |-> IF i = 1 THEN raw[i] ELSE Tail(raw[i])]

CommaSpaceJoined(h) ==
    LET raw == Split(h, ",")
    IN \A i \in 2..Len(raw) : StartsWith(raw[i], " ")

DigitValue(ch) == (CHOOSE d \in 1..10 : Digits[d] = ch) - 1

RECURSIVE ParseNumber(_)
ParseNumber(s) ==
    IF Len(s) = 1 THEN DigitValue(s[1])
    ELSE 10 * ParseNumber(DropLast(s)) + DigitValue(s[Len(s)])

IsNumber(s) ==
    /\ Len(s) > 0
    /\ \A i \in 1..Len(s) : \E d \in 1..10 : Digits[d] = s[i]
    /\ Len(s) > 1 => s[1] # "0"

\* the directive names of the fields present, in the fixed order
FieldOrder == <<"maxAge", "sMaxAge", "staleWhileRevalidate">>
DirectiveName(f) ==
    IF f = "maxAge" THEN MaxAgeName ELSE IF f = "sMaxAge" THEN SMaxAgeName ELSE StaleName

PresentFields(cfg) ==
    LET present == {i \in 1..3 : FieldOrder[i] \in DOMAIN cfg}
    IN [k \in 1..Cardinality(present) |->
           FieldOrder[CHOOSE i \in present : Cardinality({j \in present : j <= i}) = k]]

\* "public" followed by one name=value directive for each field present
PublicWithFields(h, cfg) ==
    LET parts == HeaderParts(h)
        fields == PresentFields(cfg)
    IN /\ CommaSpaceJoined(h)
       /\ Len(parts) = Len(fields) + 1
       /\ parts[1] = PublicValue
       /\ \A k \in 1..Len(fields) :
             LET nv == Split(parts[k + 1], "=")
             IN /\ Len(nv) = 2
                /\ nv[1] = DirectiveName(fields[k])
                /\ IsNumber(nv[2])
                /\ ParseNumber(nv[2]) = cfg[fields[k]]

HeaderBuilt == cacheControl # Pending

\* C14 as stated: "no-cache" when there is no cache config, otherwise "public"
\* followed by the directives of the fields present
C14_PublicForEveryConfig ==
    HeaderBuilt =>
        IF cache = Null THEN cacheControl[1] = NoCacheValue
        ELSE PublicWithFields(cacheControl[1], The(cache))

\* C14 amended: "no-cache" when there is no cache config or the config has none of
\* the three fields; otherwise "public" followed, in the fixed order and only for
\* the fields present, by max-age, s-maxage, stale-while-revalidate, joined by ", "
\* (a present field with value 0 is included)
C14_CacheControl ==
    HeaderBuilt =>
        IF cache = Null \/ DOMAIN The(cache) = {} THEN cacheControl[1] = NoCacheValue
        ELSE PublicWithFields(cacheControl[1], The(cache))

\* a config with maxAge 0 and staleWhileRevalidate but no sMaxAge
C14_Witness ==
    /\ HeaderBuilt
    /\ cache # Null
    /\ DOMAIN The(cache) = {"maxAge", "staleWhileRevalidate"}
    /\ The(cache)["maxAge"] = 0
    /\ Len(HeaderParts(cacheControl[1])) = 3

-----------------------------------------------------------------------------
(* Production: the dist directory written by build(), and ProdServer         *)
(* (constructor, start, handleRequest).                                      *)

MaxMiddleware == 1

GET == <<"G", "E", "T">>
POST == <<"P", "O", "S", "T">>
PUT == <<"P", "U", "T">>
DELETE == <<"D", "E", "L", "E", "T", "E">>
PATCH == <<"P", "A", "T", "C", "H">>
HEAD == <<"H", "E", "A", "D">>
OPTIONS == <<"O", "P", "T", "I", "O", "N", "S">>

HTTP_METHODS == <<GET, POST, PUT, DELETE, PATCH, HEAD, OPTIONS>>

DefaultExport == <<"d", "e", "f", "a", "u", "l", "t">>
LoadExport == <<"l", "o", "a", "d">>
HelperExport == <<"h", "e", "l", "p", "e", "r">>

Includes(a, v) == \E i \in 1..Len(a) : a[i] = v

\* array.filter(x => keep(x)) for a set of kept values
RECURSIVE FilterIn(_, _)
FilterIn(a, kept) ==
    IF a = <<>> THEN <<>>
    ELSE IF Head(a) \in kept THEN <<Head(a)>> \o FilterIn(Tail(a), kept)
    ELSE FilterIn(Tail(a), kept)

\* a compiled module: its exports in metafile order, each a function or another
\* value, and whether importing it fails
Module(exports, broken) == [exports |-> exports, broken |-> broken]
Export(name, kind) == [name |-> name, kind |-> kind]

ExportNames(mod) == [i \in 1..Len(mod.exports) |-> mod.exports[i].name]
ExportsFunction(mod, name) ==
    \E i \in 1..Len(mod.exports) :
        mod.exports[i].name = name /\ mod.exports[i].kind = "function"
HasExport(mod, name) == Includes(ExportNames(mod), name)

\* subsequences of a list, in the order of the list
RECURSIVE SubLists(_)
SubLists(a) ==
    IF a = <<>> THEN {<<>>}
    ELSE LET rest == SubLists(Tail(a))
         IN rest \cup {<<Head(a)>> \o r : r \in rest}

ApiModules ==
    {Module(e, b) :
        e \in SubLists(<<Export(GET, "function"), Export(POST, "function"),
                         Export(HelperExport, "function")>>)
              \cup {<<Export(GET, "value")>>, <<Export(GET, "value"), Export(POST, "function")>>},
        b \in BOOLEAN}

PageModules ==
    {Module(e, b) :
        e \in SubLists(<<Export(DefaultExport, "function"), Export(LoadExport, "function")>>),
        b \in BOOLEAN}

MiddlewareModules ==
    {Module(<<Export(DefaultExport, "function")>>, FALSE),
     Module(<<Export(DefaultExport, "value")>>, FALSE),
     Module(<<Export(DefaultExport, "function")>>, TRUE)}

\* module paths below dist/server
RouteModulePath == <<"route.js", 0>>
MiddlewarePath(i) == <<"middleware.js", i>>

\* a project: one route with its module and the middleware that apply to it
Site(type, mod, mws, cacheConfig) ==
    [type |-> type, id |-> ToPath(<<Str("a")>>), pattern |-> ToPath(<<Str("a")>>),
     module |-> mod, middleware |-> mws, cache |-> cacheConfig]

Sites ==
    {Site("api", m, mws, Null) :
        m \in ApiModules, mws \in SeqsUpTo(MiddlewareModules, MaxMiddleware)}
    \cup
    {Site("page", m, mws, c) :
        m \in PageModules, mws \in SeqsUpTo(MiddlewareModules, MaxMiddleware),
        c \in {Null, Some([f \in {"maxAge"} |-> 60])}}

\* ManifestRouteEntry: absent fields are Null
ManifestRouteEntry(id, pattern, type) ==
    [id |-> id, pattern |-> pattern, type |-> type,
     serverEntry |-> Null, ssrEntry |-> Null, methods |-> Null, hasLoad |-> FALSE,
     cache |-> Null, middleware |-> Null,
     prerendered |-> FALSE, prerenderedFile |-> Null, prerenderedCount |-> Null]

\* method detection that keeps every export of the module
apiMethods_AllExports(mod) ==
    IF Len(ExportNames(mod)) > 0 THEN Some(ExportNames(mod)) ELSE Null

\* build, step 7: the HTTP methods among the exports of an API module, kept only
\* when there is at least one
apiMethods(mod) ==
    LET methods == FilterIn(ExportNames(mod), {HTTP_METHODS[i] : i \in 1..Len(HTTP_METHODS)})
    IN IF Len(methods) > 0 THEN Some(methods) ELSE Null

middlewarePathsOf(site) == [i \in 1..Len(site.middleware) |-> MiddlewarePath(i)]

\* assembleManifest for the route of a site
assembleManifest(site) ==
    LET base == ManifestRouteEntry(site.id, site.pattern, site.type)
        mw == IF Len(site.middleware) > 0 THEN Some(middlewarePathsOf(site)) ELSE Null
        entry == IF site.type = "page"
                 THEN [base EXCEPT !.ssrEntry = Some(RouteModulePath),
                                   !.hasLoad = HasExport(site.module, LoadExport),
                                   !.cache = site.cache,
                                   !.middleware = mw]
                 ELSE [base EXCEPT !.serverEntry = Some(RouteModulePath),
                                   !.methods = apiMethods(site.module),
                                   !.middleware = mw]
    IN [version |-> 1, routes |-> <<entry>>]

\* the modules below dist/server
ServerModules(site) ==
    [p \in {RouteModulePath} \cup {MiddlewarePath(i) : i \in 1..Len(site.middleware)} |->
        IF p = RouteModulePath THEN site.module ELSE site.middleware[p[2]]]

StaticFile == <<"/", "f">>

\* the dist directory: manifest.json (or none), dist/server, dist/client
Dist(manifest, site) ==
    [manifest |-> manifest, modules |-> ServerModules(site), files |-> {StaticFile}]

SomeSite == Site("api", Module(<<Export(GET, "function")>>, FALSE), <<>>, Null)

Dists ==
    {Dist(Some(assembleManifest(s)), s) : s \in Sites}
    \cup {Dist(Null, SomeSite)}
    \cup {Dist(Some([assembleManifest(SomeSite) EXCEPT !.version = v]), SomeSite) : v \in {0, 2}}

\* a constructor that does not look at the manifest version
constructProdServer_AnyVersion(d) ==
    IF d.manifest = Null
    THEN [status |-> "failed", matcher |-> EmptyTrie]
    ELSE [status |-> "constructed", matcher |-> buildMatcher(The(d.manifest).routes)]

\* new ProdServer(options): throws without manifest.json or with a manifest whose
\* version is not 1; otherwise builds the matcher and creates the HTTP server
constructProdServer(d) ==
    IF d.manifest = Null
    THEN [status |-> "failed", matcher |-> EmptyTrie]
    ELSE IF The(d.manifest).version # 1
    THEN [status |-> "failed", matcher |-> EmptyTrie]
    ELSE [status |-> "constructed", matcher |-> buildMatcher(The(d.manifest).routes)]


\* a Web Response; res is the Node ServerResponse of the request
Body(kind) == <<kind, <<>>>>
FileBody(path) == <<"file", path>>
Response(status, headers, body) == [status |-> status, headers |-> headers, body |-> body]
ContentType(t) == ("Content-Type" :> t)

Returned(r, calls, cookies) ==
    [kind |-> "response", response |-> Some(r), calls |-> calls, cookies |-> cookies]
Thrown(calls, cookies) ==
    [kind |-> "throw", response |-> Null, calls |-> calls, cookies |-> cookies]

\* what a middleware, an API handler, load() and the adapter's render may do
MiddlewareBehaviours == {"next", "cookie+next", "respond", "throw"}
HandlerBehaviours == {"respond", "cookie+respond", "throw"}
LoadBehaviours == {"data", "cookie+data", "response", "throw"}
RenderBehaviours == {"html", "throw"}
RouteBehaviours ==
    [handler : HandlerBehaviours, load : LoadBehaviours, render : RenderBehaviours]

\* (req.method || "GET").toUpperCase(): Node hands over the method in upper case
ToUpperCase(s) ==
    LET lower == <<"a", "d", "e", "g", "o", "p", "s", "t", "u">>
        upper == <<"A", "D", "E", "G", "O", "P", "S", "T", "U">>
    IN [i \in 1..Len(s) |->
           IF \E k \in 1..Len(lower) : lower[k] = s[i]
           THEN upper[CHOOSE k \in 1..Len(lower) : lower[k] = s[i]]
           ELSE s[i]]

\* importModule: the module at the path, or a rejected promise
ImportFails(modules, path) == path \notin DOMAIN modules \/ modules[path].broken

\* handleApiRouteInner without the check against the manifest's methods
handleApiRouteInner_NoMethodCheck(reqMethod, entry, modules, b) ==
    LET method == ToUpperCase(reqMethod)
    IN IF entry.serverEntry = Null
       THEN Returned(Response(500, ContentType("text/plain"), Body("no server entry")), <<>>, <<>>)
       ELSE IF ImportFails(modules, The(entry.serverEntry)) THEN Thrown(<<>>, <<>>)
       ELSE IF ~ExportsFunction(modules[The(entry.serverEntry)], method)
       THEN Returned(Response(500, ContentType("text/plain"), Body("no handler")), <<>>, <<>>)
       ELSE IF b.handler = "throw" THEN Thrown(<<method>>, <<>>)
       ELSE Returned(Response(200, ContentType("application/json"), Body("handler")), <<method>>,
                     IF b.handler = "cookie+respond" THEN <<"handler">> ELSE <<>>)

handleApiRouteInner(reqMethod, entry, modules, b) ==
    LET method == ToUpperCase(reqMethod)
        allowedMethods == IF entry.methods = Null THEN <<>> ELSE The(entry.methods)
    IN IF ~Includes(allowedMethods, method)
       THEN Returned(Response(405, ContentType("application/json")
                                   @@ ("Allow" :> JoinCommaSpace(allowedMethods)),
                              Body("method not allowed")), <<>>, <<>>)
       ELSE IF entry.serverEntry = Null
       THEN Returned(Response(500, ContentType("text/plain"), Body("no server entry")), <<>>, <<>>)
       ELSE IF ImportFails(modules, The(entry.serverEntry)) THEN Thrown(<<>>, <<>>)
       ELSE IF ~ExportsFunction(modules[The(entry.serverEntry)], method)
       THEN Returned(Response(500, ContentType("text/plain"), Body("no handler")), <<>>, <<>>)
       ELSE IF b.handler = "throw" THEN Thrown(<<method>>, <<>>)
       ELSE Returned(Response(200, ContentType("application/json"), Body("handler")), <<method>>,
                     IF b.handler = "cookie+respond" THEN <<"handler">> ELSE <<>>)

handlePageRouteInner(entry, modules, b) ==
    IF entry.ssrEntry = Null
    THEN Returned(Response(500, ContentType("text/plain"), Body("no SSR entry")), <<>>, <<>>)
    ELSE IF ImportFails(modules, The(entry.ssrEntry)) THEN Thrown(<<>>, <<>>)
    ELSE LET mod == modules[The(entry.ssrEntry)]
             loads == entry.hasLoad /\ ExportsFunction(mod, LoadExport)
             calls == IF loads THEN <<LoadExport>> ELSE <<>>
             cookies == IF loads /\ b.load = "cookie+data" THEN <<"load">> ELSE <<>>
         IN IF ~HasExport(mod, DefaultExport)
            THEN Returned(Response(500, ContentType("text/plain"), Body("no default component")),
                          <<>>, <<>>)
            ELSE IF loads /\ b.load = "throw" THEN Thrown(calls, <<>>)
            ELSE IF loads /\ b.load = "response"
            THEN Returned(Response(302, ContentType("text/plain"), Body("load")), calls, <<>>)
            ELSE IF b.render = "throw" THEN Thrown(calls, cookies)
            ELSE Returned(Response(200, ContentType("text/html")
                              @@ ("Cache-Control" :> buildCacheControlHeader(entry.cache)),
                              Body("html")), calls, cookies)

\* path.join(this.clientDir, ...): the path below dist/client, without empty segments
\* path normalisation as path.join does it: "." is dropped, ".." removes the segment
\* before it and is kept when there is none to remove
RECURSIVE NormalizeSegs(_, _)
NormalizeSegs(done, segs) ==
    IF segs = <<>> THEN done
    ELSE IF Head(segs) = <<".">> THEN NormalizeSegs(done, Tail(segs))
    ELSE IF Head(segs) = <<".", ".">> /\ done # <<>> /\ done[Len(done)] # <<".", ".">>
    THEN NormalizeSegs(SubSeq(done, 1, Len(done) - 1), Tail(segs))
    ELSE NormalizeSegs(Append(done, Head(segs)), Tail(segs))

\* path.join(this.clientDir, p), as a path relative to dist/client
ClientPath(p) == ToPath(NormalizeSegs(<<>>, FilterBoolean(Split(p, SLASH))))

\* dist/manifest.json, relative to dist/client
ManifestJsonPath ==
    <<"/", ".", ".", "/", "m", "a", "n", "i", "f", "e", "s", "t", ".", "j", "s", "o", "n">>

\* fs.existsSync(path) && fs.statSync(path).isFile() in the dist directory
IsFile(d, path) ==
    \/ path \in d.files
    \/ path = ManifestJsonPath /\ d.manifest # Null

IndexHtml == <<"i", "n", "d", "e", "x", ".", "h", "t", "m", "l">>

servePrerenderedPageInner(p, entry, files) ==
    LET htmlRelPath ==
            IF entry.prerenderedFile # Null /\ entry.prerenderedCount = Null
            THEN The(entry.prerenderedFile)
            ELSE IF p = Str(SLASH) THEN IndexHtml
            ELSE Tail(p) \o <<SLASH>> \o IndexHtml
    IN IF ClientPath(htmlRelPath) \notin files
       THEN Returned(Response(404, ContentType("text/html"), Body("not found")), <<>>, <<>>)
       ELSE Returned(Response(200, ContentType("text/html")
                         @@ ("Cache-Control" :> buildCacheControlHeader(entry.cache)),
                         FileBody(ClientPath(htmlRelPath))), <<>>, <<>>)

\* the final handler handed to runMiddleware
routeHandler(request, entry, d, b) ==
    IF entry.type = "api" THEN handleApiRouteInner(request.method, entry, d.modules, b)
    ELSE IF entry.prerendered THEN servePrerenderedPageInner(request.cleanUrl, entry, d.files)
    ELSE handlePageRouteInner(entry, d.modules, b)


NoHeaders == [h \in {} |-> <<>>]

NoRequest ==
    [pc |-> "idle", method |-> <<>>, url |-> <<>>, cleanUrl |-> <<>>, entry |-> Null,
     chain |-> <<>>, cookies |-> <<>>, webResponse |-> Null]

\* a ServerResponse before anything is written: sent is what went out with end()
FreshResponse ==
    [statusCode |-> 200, headers |-> NoHeaders, setCookie |-> <<>>,
     headersSent |-> FALSE, sent |-> Null]

NoEvents ==
    [thrown |-> FALSE, escaped |-> FALSE, calls |-> <<>>, queued |-> <<>>,
     handlerReached |-> FALSE, shortCircuited |-> FALSE]

\* res.writeHead(status, headers); res.end(body)
WriteHeadAndEnd(r, status, headers, body) ==
    [r EXCEPT !.statusCode = status,
              !.headers = headers @@ r.headers,
              !.headersSent = TRUE,
              !.sent = Some([status |-> status, headers |-> headers @@ r.headers,
                             setCookie |-> r.setCookie, body |-> body])]

RequestMethods == {GET, POST, PUT}
RequestUrls ==
    {<<"/", "a">>, <<"/", "a", "?", "q">>, <<"/", "a", "/">>, <<"/", "b">>, StaticFile,
     ManifestJsonPath}

ServeStart ==
    /\ dist \in Dists
    /\ server = "none"
    /\ matcher = EmptyTrie
    /\ req = NoRequest
    /\ res = FreshResponse
    /\ events = NoEvents

NoDist == [manifest |-> Null, modules |-> <<>>, files |-> {}]

ServeIdle ==
    /\ dist = NoDist
    /\ server = "none"
    /\ matcher = EmptyTrie
    /\ req = NoRequest
    /\ res = FreshResponse
    /\ events = NoEvents

\* new ProdServer({distDir, ...}), on the output of a build that is not running
Construct ==
    /\ server = "none"
    /\ build.pc \in {"none", "done", "aborted"}
    /\ LET c == constructProdServer(dist)
       IN /\ server' = c.status
          /\ matcher' = c.matcher
    /\ UNCHANGED <<dist, req, res, events>>
    /\ UNCHANGED <<matchVars, mwVars, scanVars, layoutVars, cacheVars, ssgVars, importVars>>

\* prod.start()
Start ==
    /\ server = "constructed"
    /\ server' = "listening"
    /\ UNCHANGED <<dist, matcher, req, res, events>>
    /\ UNCHANGED <<matchVars, mwVars, scanVars, layoutVars, cacheVars, ssgVars, importVars>>

\* handleRequest up to its first await: the static step, the match, the 404
HandleRequest(method, url) ==
    /\ server = "listening"
    /\ req.pc \in {"idle", "done"}
    /\ events' = NoEvents
    /\ LET cleanUrl == Split(url, "?")[1]
           r == [NoRequest EXCEPT !.method = method, !.url = url, !.cleanUrl = cleanUrl]
           m == match(matcher, cleanUrl)
       IN IF IsFile(dist, ClientPath(cleanUrl))
          THEN /\ res' = WriteHeadAndEnd(FreshResponse, 200, ContentType("static"),
                                         FileBody(ClientPath(cleanUrl)))
               /\ req' = [r EXCEPT !.pc = "done"]
          ELSE IF m = Null
          THEN /\ res' = WriteHeadAndEnd(FreshResponse, 404, ContentType("text/html"),
                                         Body("not found"))
               /\ req' = [r EXCEPT !.pc = "done"]
          ELSE /\ res' = FreshResponse
               /\ req' = [r EXCEPT !.pc = "loadMiddlewareChain",
                                   !.entry = Some(The(m).entry)]
    /\ UNCHANGED <<dist, server, matcher>>
    /\ UNCHANGED <<matchVars, mwVars, scanVars, layoutVars, cacheVars, ssgVars, importVars>>

Incoming == \E method \in RequestMethods, url \in RequestUrls : HandleRequest(method, url)

\* loadMiddlewareChain(match.entry.middleware || [])
LoadMiddlewareChain ==
    /\ req.pc = "loadMiddlewareChain"
    /\ LET entries == IF The(req.entry).middleware = Null THEN <<>>
                      ELSE The(The(req.entry).middleware)
           functions == {entries[i] : i \in {j \in 1..Len(entries) :
                             ~ImportFails(dist.modules, entries[j])
                             /\ ExportsFunction(dist.modules[entries[j]], DefaultExport)}}
       IN IF \E i \in 1..Len(entries) : ImportFails(dist.modules, entries[i])
          THEN /\ req' = [req EXCEPT !.pc = "catch"]
               /\ events' = [events EXCEPT !.thrown = TRUE]
          ELSE /\ req' = [req EXCEPT !.pc = "runMiddleware",
                                     !.chain = FilterIn(entries, functions)]
               /\ UNCHANGED events
    /\ UNCHANGED <<dist, server, matcher, res>>
    /\ UNCHANGED <<matchVars, mwVars, scanVars, layoutVars, cacheVars, ssgVars, importVars>>

\* the first middleware of the chain that does not call next(), or 0
FirstStop(bs) ==
    LET stops == {i \in 1..Len(bs) : bs[i] \in {"respond", "throw"}}
    IN IF stops = {} THEN 0 ELSE CHOOSE i \in stops : \A j \in stops : i <= j

\* the cookies queued by the middleware that ran before position k
RECURSIVE QueuedBefore(_, _)
QueuedBefore(bs, k) ==
    IF k <= 1 THEN <<>>
    ELSE QueuedBefore(bs, k - 1)
         \o (IF bs[k - 1] = "cookie+next" THEN <<"middleware">> ELSE <<>>)

\* runMiddleware(chain, ctx, finalHandler): the middleware in order, each calling
\* next() once and returning its result, or answering itself, or throwing
RunMiddlewareChain ==
    /\ req.pc = "runMiddleware"
    /\ \E bs \in [1..Len(req.chain) -> MiddlewareBehaviours] :
          LET k == FirstStop(bs)
              queued == QueuedBefore(bs, IF k = 0 THEN Len(bs) + 1 ELSE k)
          IN IF k = 0
             THEN /\ req' = [req EXCEPT !.pc = "routeHandler", !.cookies = queued]
                  /\ events' = [events EXCEPT !.handlerReached = TRUE, !.queued = queued]
             ELSE IF bs[k] = "respond"
             THEN /\ req' = [req EXCEPT !.pc = "sendWebResponse", !.cookies = queued,
                                 !.webResponse =
                                     Some(Response(401, ContentType("text/plain"),
                                                   Body("middleware")))]
                  /\ events' = [events EXCEPT !.shortCircuited = TRUE, !.queued = queued]
             ELSE /\ req' = [req EXCEPT !.pc = "catch", !.cookies = queued]
                  /\ events' = [events EXCEPT !.thrown = TRUE, !.queued = queued]
    /\ UNCHANGED <<dist, server, matcher, res>>
    /\ UNCHANGED <<matchVars, mwVars, scanVars, layoutVars, cacheVars, ssgVars, importVars>>

\* the final handler: handleApiRouteInner, servePrerenderedPageInner or
\* handlePageRouteInner
RouteHandler ==
    /\ req.pc = "routeHandler"
    /\ \E b \in RouteBehaviours :
          LET o == routeHandler(req, The(req.entry), dist, b)
          IN /\ req' = [req EXCEPT !.pc = IF o.kind = "throw" THEN "catch"
                                          ELSE "sendWebResponse",
                                   !.cookies = @ \o o.cookies,
                                   !.webResponse = o.response]
             /\ events' = [events EXCEPT !.thrown = (o.kind = "throw"),
                                         !.calls = o.calls,
                                         !.queued = @ \o o.cookies]
    /\ UNCHANGED <<dist, server, matcher, res>>
    /\ UNCHANGED <<matchVars, mwVars, scanVars, layoutVars, cacheVars, ssgVars, importVars>>

\* sendWebResponse(res, response): status, headers, then res.end(body)
SendWebResponse ==
    /\ req.pc = "sendWebResponse"
    /\ LET w == The(req.webResponse)
       IN res' = WriteHeadAndEnd(res, w.status, w.headers, w.body)
    /\ req' = [req EXCEPT !.pc = "cookies"]
    /\ UNCHANGED <<dist, server, matcher, events>>
    /\ UNCHANGED <<matchVars, mwVars, scanVars, layoutVars, cacheVars, ssgVars, importVars>>

\* for (const cookie of getSetCookieHeaders(ctx)) res.appendHeader("Set-Cookie", cookie):
\* appendHeader throws once the headers are sent
AppendCookies ==
    /\ req.pc = "cookies"
    /\ IF req.cookies = <<>>
       THEN /\ req' = [req EXCEPT !.pc = "done"]
            /\ UNCHANGED <<res, events>>
       ELSE IF res.headersSent
       THEN /\ req' = [req EXCEPT !.pc = "catch"]
            /\ events' = [events EXCEPT !.thrown = TRUE]
            /\ UNCHANGED res
       ELSE /\ req' = [req EXCEPT !.pc = "done"]
            /\ res' = [res EXCEPT !.setCookie = @ \o req.cookies]
            /\ UNCHANGED events
    /\ UNCHANGED <<dist, server, matcher>>
    /\ UNCHANGED <<matchVars, mwVars, scanVars, layoutVars, cacheVars, ssgVars, importVars>>

\* catch (error): res.writeHead(500, ...) throws once the headers are sent, and the
\* promise of handleRequest is then rejected with nobody to handle it
CatchError ==
    /\ req.pc = "catch"
    /\ req' = [req EXCEPT !.pc = "done"]
    /\ IF res.headersSent
       THEN /\ events' = [events EXCEPT !.escaped = TRUE]
            /\ UNCHANGED res
       ELSE /\ res' = WriteHeadAndEnd(res, 500, ContentType("text/plain"),
                                      Body("Internal Server Error"))
            /\ UNCHANGED events
    /\ UNCHANGED <<dist, server, matcher>>
    /\ UNCHANGED <<matchVars, mwVars, scanVars, layoutVars, cacheVars, ssgVars, importVars>>

ServeNext ==
    \/ Construct
    \/ Start
    \/ Incoming
    \/ LoadMiddlewareChain
    \/ RunMiddlewareChain
    \/ RouteHandler
    \/ SendWebResponse
    \/ AppendCookies
    \/ CatchError

\* the prerender pass at rest
NoBuild == [pc |-> "none"]

SsgIdle ==
    /\ project = <<>>
    /\ build = NoBuild


-----------------------------------------------------------------------------
(* ProdServer: properties *)

RequestDone == req.pc = "done"
Sent == The(res.sent)
MatchedEntry == The(req.entry)
MatchedApi == req.entry # Null /\ MatchedEntry.type = "api"
RouteModule == dist.modules[RouteModulePath]

\* the HTTP methods the route module exports
ExportedMethods(mod) ==
    {HTTP_METHODS[i] : i \in {j \in 1..Len(HTTP_METHODS) : HasExport(mod, HTTP_METHODS[j])}}

\* the methods an Allow header value lists
AllowList(h) == IF h = <<>> THEN <<>> ELSE HeaderParts(h)

\* C12: a request to a matched API route that reaches the route handler gets 405
\* with an Allow header listing exactly the exported methods, and no handler runs,
\* when its method is not exported; when the method is exported as a function of
\* an importable module, that handler runs once and what it returns is the response
C12_ApiMethodDispatch ==
    (RequestDone /\ MatchedApi /\ events.handlerReached) =>
        IF req.method \notin ExportedMethods(RouteModule)
        THEN /\ Sent.status = 405
             /\ "Allow" \in DOMAIN Sent.headers
             /\ LET listed == AllowList(Sent.headers["Allow"])
                IN /\ CommaSpaceJoined(Sent.headers["Allow"])
                   /\ {listed[i] : i \in 1..Len(listed)} = ExportedMethods(RouteModule)
                   /\ Len(listed) = Cardinality(ExportedMethods(RouteModule))
             /\ events.calls = <<>>
        ELSE (ExportsFunction(RouteModule, req.method) /\ ~RouteModule.broken) =>
             /\ events.calls = <<req.method>>
             /\ req.webResponse # Null =>
                   /\ Sent.status = The(req.webResponse).status
                   /\ Sent.body = Body("handler")

\* PUT to a route that exports GET and POST
C12_Witness ==
    /\ RequestDone /\ MatchedApi /\ events.handlerReached
    /\ req.method = PUT
    /\ ExportedMethods(RouteModule) = {GET, POST}
    /\ Sent.status = 405
    /\ Len(AllowList(Sent.headers["Allow"])) = 2

\* an API route of the manifest whose module exports no recognized HTTP method,
\* and a finished request to it that reached the route handler
NoMethodRoutes ==
    IF dist.manifest = Null \/ The(dist.manifest).version # 1 THEN {}
    ELSE {The(dist.manifest).routes[i] : i \in
             {j \in 1..Len(The(dist.manifest).routes) :
                 /\ The(dist.manifest).routes[j].type = "api"
                 /\ ExportedMethods(dist.modules[RouteModulePath]) = {}}}

ServedByNoMethodRoute ==
    /\ RequestDone
    /\ req.entry # Null
    /\ MatchedEntry \in NoMethodRoutes
    /\ events.handlerReached

\* C13 as stated: an API route whose module exports no recognized HTTP-method
\* handler is listed in the manifest, and every request to it is answered with 500
C13_NoHandlerAnswers500 ==
    ServedByNoMethodRoute => Sent.status = 500

\* C13 amended: such a route is listed in the manifest, without a methods list, and
\* every request that reaches its route handler is answered with 405 and an empty
\* Allow header; nothing of the module runs
C13_NoHandlerAnswers405 ==
    /\ \A e \in NoMethodRoutes : e.methods = Null /\ e.serverEntry # Null
    /\ ServedByNoMethodRoute =>
          /\ Sent.status = 405
          /\ Sent.headers["Allow"] = <<>>
          /\ events.calls = <<>>

\* GET to a route whose module exports only a helper
C13_Witness ==
    /\ ServedByNoMethodRoute
    /\ req.method = GET
    /\ ExportNames(RouteModule) = <<HelperExport>>
    /\ Sent.status = 405

\* C15: a ProdServer exists (constructed or listening) only with a manifest.json of
\* version 1; without one, or with another version, construction fails and no
\* request is ever handled
C15_ServerNeedsVersionOneManifest ==
    /\ server \in {"constructed", "listening"} =>
          dist.manifest # Null /\ The(dist.manifest).version = 1
    /\ (server # "none" /\ (dist.manifest = Null \/ The(dist.manifest).version # 1)) =>
          server = "failed"
    /\ server \in {"none", "failed"} => req.pc = "idle"

\* the constructor threw on a manifest of version 2
C15_Witness ==
    /\ server = "failed"
    /\ dist.manifest # Null
    /\ The(dist.manifest).version = 2

\* C16: every request ends with exactly one response; an exception raised while
\* serving it is answered with 500 "Internal Server Error" and never escapes
\* handleRequest
C16_OneResponseNoEscape ==
    RequestDone =>
        /\ res.sent # Null
        /\ ~events.escaped
        /\ events.thrown =>
              Sent.status = 500 /\ Sent.body = Body("Internal Server Error")

\* C17: every cookie mutation queued during a request whose chain returned a
\* response is sent as a Set-Cookie header of that response
C17_QueuedCookiesAreSent ==
    (RequestDone /\ req.webResponse # Null) => Sent.setCookie = events.queued


\* C16 holds of the requests that queue no cookie
C16_WhenNoCookieQueued ==
    (RequestDone /\ events.queued = <<>>) =>
        /\ res.sent # Null
        /\ ~events.escaped
        /\ events.thrown =>
              Sent.status = 500 /\ Sent.body = Body("Internal Server Error")


-----------------------------------------------------------------------------
(* build(): manifest assembly and the prerender pass (SSG), followed by a    *)
(* ProdServer on the output                                                  *)

MaxPaths == 2

PrerenderExport == <<"p", "r", "e", "r", "e", "n", "d", "e", "r">>

ParamX == Str("x")
ParamValues == {Str("a"), Str("b")}
ParamSets == {(ParamX :> v) : v \in ParamValues}

\* the page modules of prerendered routes: with or without default export and load,
\* and one whose import throws
PrerenderModules ==
    {Module(e \o <<Export(PrerenderExport, "value")>>, FALSE) :
        e \in SubLists(<<Export(DefaultExport, "function"), Export(LoadExport, "function")>>)}
    \cup {Module(<<Export(DefaultExport, "function"), Export(PrerenderExport, "value")>>, TRUE)}

\* a route that exports prerender: paths is Null for "prerender = true", otherwise
\* the param sets that prerender.paths() returns
PrerenderRoute(id, pattern, mod, paths) ==
    [type |-> "page", id |-> id, pattern |-> pattern, module |-> mod,
     middleware |-> <<>>, cache |-> Null, paths |-> paths]

StaticRoutes ==
    {PrerenderRoute(Str(SLASH), Str(SLASH), m, Null) : m \in PrerenderModules}

DynamicRoutes ==
    {PrerenderRoute(<<"/", "a", "/", "[", "x", "]">>, <<"/", "a", "/", ":", "x">>, m, Some(ps)) :
        m \in PrerenderModules, ps \in SeqsUpTo(ParamSets, MaxPaths)}

Projects ==
    {<<>>}
    \cup {<<r>> : r \in StaticRoutes \cup DynamicRoutes}
    \cup {<<s, d>> : s \in StaticRoutes, d \in DynamicRoutes}
    \cup {<<d, s>> : s \in StaticRoutes, d \in DynamicRoutes}

PageModulePath(i) == <<"route.js", i>>

\* assembleManifest for the page routes of the project, in the order of the routes
pageEntries(rs) ==
    [i \in 1..Len(rs) |->
        [ManifestRouteEntry(rs[i].id, rs[i].pattern, "page")
            EXCEPT !.ssrEntry = Some(PageModulePath(i)),
                   !.hasLoad = HasExport(rs[i].module, LoadExport),
                   !.cache = rs[i].cache,
                   !.middleware = IF Len(rs[i].middleware) > 0 THEN Some(rs[i].middleware)
                                  ELSE Null]]

\* export detection imports the compiled module of a page that exports prerender or
\* cache; the import is not guarded
detectionImportThrows(rs) ==
    \E i \in 1..Len(rs) :
        /\ HasExport(rs[i].module, PrerenderExport) \/ rs[i].cache # Null
        /\ rs[i].module.broken

\* manifest.json as written from the entries assembled before the prerender pass
manifestToWrite_BeforePrerender(rs, entries) == [version |-> 1, routes |-> pageEntries(rs)]

\* JSON.stringify(manifest): the manifest object the prerender pass has updated
manifestToWrite(rs, entries) == [version |-> 1, routes |-> entries]

\* buildEmptyManifest
buildEmptyManifest == [version |-> 1, routes |-> <<>>]

\* String.prototype.replace(needle, value): the first occurrence only
ReplaceFirst(s, needle, value) ==
    LET at == {i \in 1..(Len(s) - Len(needle) + 1) :
                  SubSeq(s, i, i + Len(needle) - 1) = needle}
    IN IF at = {} THEN s
       ELSE LET i == CHOOSE j \in at : \A k \in at : j <= k
            IN SubSeq(s, 1, i - 1) \o value \o SubSeq(s, i + Len(needle), Len(s))

\* the concrete pathname of a param set: every `:${key}` of the pattern replaced
RECURSIVE SubstituteParams(_, _, _)
SubstituteParams(p, params, keys) ==
    IF keys = {} THEN p
    ELSE LET key == CHOOSE k \in keys : TRUE
         IN SubstituteParams(ReplaceFirst(p, <<":">> \o key, params[key]),
                             params, keys \ {key})

prerenderPathname(pattern, params) == SubstituteParams(pattern, params, DOMAIN params)

\* pathname === '/' ? 'index.html' : pathname.slice(1) + '/index.html'
htmlRelPathOf(p) ==
    IF p = Str(SLASH) THEN IndexHtml ELSE Tail(p) \o <<SLASH>> \o IndexHtml

\* the page after one that load() answered with a Response, when the pass gives up
\* on the rest of the route
pageAfterSkip_Break(page, paramSets) == Len(paramSets) + 1

\* `continue`: the pass goes on with the next param set
pageAfterSkip(page, paramSets) == page + 1

\* the route after one whose module has no default export, when the pass ends there
routeAfterSkip_Break(route, rs) == Len(rs) + 1

\* `continue`: the pass goes on with the next route
routeAfterSkip(route, rs) == route + 1

BuildStart ==
    [pc |-> "start", manifest |-> <<>>, route |-> 1, paramSets |-> <<>>, page |-> 1,
     renderedCount |-> 0, pages |-> {}, content |-> <<>>, threw |-> FALSE,
     importFailed |-> FALSE, writes |-> 0, result |-> Null]

SsgStart ==
    /\ project \in Projects
    /\ build = BuildStart

\* build steps 2 and 3 when the scan finds no route: the empty manifest is written
\* and build() returns
WriteEmptyManifest ==
    /\ build.pc = "start"
    /\ project = <<>>
    /\ build' = [build EXCEPT !.pc = "done", !.writes = @ + 1,
                              !.result = Some(buildEmptyManifest)]
    /\ dist' = [manifest |-> Some(buildEmptyManifest), modules |-> <<>>, files |-> {}]
    /\ UNCHANGED <<project, server, matcher, req, res, events>>
    /\ UNCHANGED <<matchVars, mwVars, scanVars, layoutVars, cacheVars, importVars>>

\* build steps 2 to 8: clean the output directory, bundle, detect the exports,
\* assemble the manifest
AssembleManifest ==
    /\ build.pc = "start"
    /\ project # <<>>
    /\ IF detectionImportThrows(project)
       THEN build' = [build EXCEPT !.pc = "aborted", !.threw = TRUE, !.importFailed = TRUE]
       ELSE build' = [build EXCEPT !.pc = "route", !.manifest = pageEntries(project)]
    /\ dist' = [manifest |-> Null,
                modules |-> [p \in {PageModulePath(i) : i \in 1..Len(project)} |->
                                project[p[2]].module],
                files |-> {}]
    /\ UNCHANGED <<project, server, matcher, req, res, events>>
    /\ UNCHANGED <<matchVars, mwVars, scanVars, layoutVars, cacheVars, importVars>>

\* one iteration of the loop over prerenderMap, up to the loop over the param sets
BeginRoute ==
    /\ build.pc = "route"
    /\ build.route <= Len(project)
    /\ LET r == project[build.route]
       IN IF ~HasExport(r.module, DefaultExport)
          THEN build' = [build EXCEPT !.route = routeAfterSkip(build.route, project)]
          ELSE build' = [build EXCEPT !.pc = "page",
                                      !.paramSets = IF r.paths = Null THEN <<NoParams>>
                                                    ELSE The(r.paths),
                                      !.page = 1,
                                      !.renderedCount = 0]
    /\ UNCHANGED <<project, serveVars>>
    /\ UNCHANGED <<matchVars, mwVars, scanVars, layoutVars, cacheVars, importVars>>

\* one iteration of the loop over the param sets: load(), render, write the file
RenderPage ==
    /\ build.pc = "page"
    /\ build.page <= Len(build.paramSets)
    /\ \E l \in {"data", "response", "throw"}, rendered \in RenderBehaviours :
          LET r == project[build.route]
              entry == build.manifest[build.route]
              params == build.paramSets[build.page]
              p == prerenderPathname(entry.pattern, params)
              loads == entry.hasLoad /\ ExportsFunction(r.module, LoadExport)
              htmlRelPath == htmlRelPathOf(p)
              file == ClientPath(htmlRelPath)
              unit == [route |-> build.route, page |-> build.page, file |-> file]
          IN IF (loads /\ l = "throw") \/ (~(loads /\ l = "response") /\ rendered = "throw")
             THEN /\ build' = [build EXCEPT !.pc = "aborted", !.threw = TRUE]
                  /\ UNCHANGED dist
             ELSE IF loads /\ l = "response"
             THEN /\ build' = [build EXCEPT
                                  !.page = pageAfterSkip(build.page, build.paramSets),
                                  !.pages = @ \cup {unit @@ [outcome |-> "skipped"]}]
                  /\ UNCHANGED dist
             ELSE /\ build' = [build EXCEPT
                                  !.page = build.page + 1,
                                  !.renderedCount = @ + 1,
                                  !.pages = @ \cup {unit @@ [outcome |-> "written"]},
                                  !.content = (file :> [route |-> build.route,
                                                        params |-> params]) @@ @,
                                  !.manifest[build.route].prerenderedFile =
                                      IF Len(build.paramSets) = 1 THEN Some(htmlRelPath)
                                      ELSE @]
                  /\ dist' = [dist EXCEPT !.files = @ \cup {file}]
    /\ UNCHANGED <<project, server, matcher, req, res, events>>
    /\ UNCHANGED <<matchVars, mwVars, scanVars, layoutVars, cacheVars, importVars>>

\* after the last param set: mark the entry
FinishRoute ==
    /\ build.pc = "page"
    /\ build.page > Len(build.paramSets)
    /\ build' = [build EXCEPT
                    !.pc = "route",
                    !.route = @ + 1,
                    !.manifest[build.route].prerendered = TRUE,
                    !.manifest[build.route].prerenderedCount =
                        IF Len(build.paramSets) > 1 THEN Some(build.renderedCount) ELSE @]
    /\ UNCHANGED <<project, serveVars>>
    /\ UNCHANGED <<matchVars, mwVars, scanVars, layoutVars, cacheVars, importVars>>

\* after the last route: write manifest.json
WriteManifest ==
    /\ build.pc = "route"
    /\ build.route > Len(project)
    /\ build' = [build EXCEPT !.pc = "done", !.writes = @ + 1,
                              !.result = Some([version |-> 1, routes |-> build.manifest])]
    /\ dist' = [dist EXCEPT !.manifest = Some(manifestToWrite(project, build.manifest))]
    /\ UNCHANGED <<project, server, matcher, req, res, events>>
    /\ UNCHANGED <<matchVars, mwVars, scanVars, layoutVars, cacheVars, importVars>>

SsgUrls ==
    {Str(SLASH), <<"/", "a", "/", "a">>, <<"/", "a", "/", "b">>, <<"/", "a", "/", "a", "/">>,
     <<"/", "a">>, <<SLASH>> \o IndexHtml}

Visit == \E url \in SsgUrls : HandleRequest(GET, url)

SsgNext ==
    \/ WriteEmptyManifest
    \/ AssembleManifest
    \/ BeginRoute
    \/ RenderPage
    \/ FinishRoute
    \/ WriteManifest
    \/ Construct
    \/ Start
    \/ Visit
    \/ LoadMiddlewareChain
    \/ RunMiddlewareChain
    \/ RouteHandler
    \/ SendWebResponse
    \/ AppendCookies


\* what the pass did for route i of the project
UnitsOf(i) == {u \in build.pages : u.route = i}
FilesWrittenFor(i) == {u.file : u \in {v \in UnitsOf(i) : v.outcome = "written"}}
DeclaredPages(i) == IF project[i].paths = Null THEN <<NoParams>> ELSE The(project[i].paths)
PassDone == build.pc = "done"
WrittenManifest == The(dist.manifest).routes

\* C18 (as claimed): after the prerender pass, an entry marked prerendered carries
\* exactly one of prerenderedFile (one page declared, and that file was written) and
\* prerenderedCount (several pages declared), prerenderedCount is the number of HTML
\* files written for that route in this build, and an entry that is not prerendered
\* carries neither.
C18_PrerenderedEntryFields ==
    PassDone =>
        \A i \in 1..Len(project) :
            LET e == WrittenManifest[i]
            IN IF e.prerendered
               THEN /\ (e.prerenderedFile # Null) # (e.prerenderedCount # Null)
                    /\ e.prerenderedFile # Null =>
                          /\ Len(DeclaredPages(i)) = 1
                          /\ ClientPath(The(e.prerenderedFile)) \in FilesWrittenFor(i)
                          /\ ClientPath(The(e.prerenderedFile)) \in dist.files
                    /\ e.prerenderedCount # Null =>
                          /\ Len(DeclaredPages(i)) > 1
                          /\ The(e.prerenderedCount) = Cardinality(FilesWrittenFor(i))
               ELSE e.prerenderedFile = Null /\ e.prerenderedCount = Null

\* the same, for the routes whose every declared page was rendered to a file of its
\* own: the case in which the marks of the pass are right
C18_WhenEveryPageIsWritten ==
    PassDone =>
        \A i \in 1..Len(project) :
            LET e == WrittenManifest[i]
                n == Len(DeclaredPages(i))
            IN (e.prerendered /\ n > 0 /\ Cardinality(FilesWrittenFor(i)) = n) =>
                  /\ (e.prerenderedFile # Null) # (e.prerenderedCount # Null)
                  /\ e.prerenderedFile # Null =>
                        n = 1 /\ ClientPath(The(e.prerenderedFile)) \in FilesWrittenFor(i)
                  /\ e.prerenderedCount # Null => n > 1 /\ The(e.prerenderedCount) = n

\* the route of the project that a request matched, and the params of the match
MatchedRouteIndex ==
    CHOOSE i \in 1..Len(project) : project[i].id = MatchedEntry.id
MatchedParams == The(match(matcher, req.cleanUrl)).params
ServedFromPaths ==
    /\ RequestDone
    /\ req.entry # Null
    /\ MatchedEntry.prerendered
    /\ project[MatchedRouteIndex].paths # Null
ParamsDeclared ==
    \E k \in 1..Len(DeclaredPages(MatchedRouteIndex)) :
        DeclaredPages(MatchedRouteIndex)[k] = MatchedParams
ParamsWritten ==
    \E u \in UnitsOf(MatchedRouteIndex) :
        u.outcome = "written" /\ DeclaredPages(MatchedRouteIndex)[u.page] = MatchedParams

\* C19 (as claimed): for a dynamic route prerendered from prerender.paths(), a request
\* whose params are not one of the param sets that paths() returned is answered 404,
\* however many param sets there were, and a request whose params are in the set and
\* whose page was written is answered 200 with the HTML written for those params.
C19_OnlyDeclaredParamsAreServed ==
    ServedFromPaths =>
        /\ ~ParamsDeclared => Sent.status = 404
        /\ ParamsWritten =>
              /\ Sent.status = 200
              /\ Sent.body[1] = "file"
              /\ build.content[Sent.body[2]] =
                    [route |-> MatchedRouteIndex, params |-> MatchedParams]

\* the same when paths() returned several param sets
C19_WhenSeveralParamSets ==
    (ServedFromPaths /\ Len(DeclaredPages(MatchedRouteIndex)) > 1) =>
        /\ ~ParamsDeclared => Sent.status = 404
        /\ ParamsWritten =>
              /\ Sent.status = 200
              /\ Sent.body[1] = "file"
              /\ build.content[Sent.body[2]] =
                    [route |-> MatchedRouteIndex, params |-> MatchedParams]

\* C20: a load() that returns a Response skips that page only, and a module without
\* default export skips that route only (nothing written for it, entry not marked
\* prerendered): the pass ends early only when something throws, and when it ends
\* every declared page of every route with a default export was either written or
\* skipped for its own Response, and the manifest is written.
C20_LocalFailuresDoNotStopThePass ==
    /\ build.pc = "aborted" => build.threw
    /\ PassDone =>
          /\ dist.manifest # Null
          /\ \A i \in 1..Len(project) :
                IF HasExport(project[i].module, DefaultExport)
                THEN /\ WrittenManifest[i].prerendered
                     /\ \A k \in 1..Len(DeclaredPages(i)) :
                           \E u \in UnitsOf(i) :
                               /\ u.page = k
                               /\ u.outcome = "written" => u.file \in dist.files
                               /\ u.outcome = "skipped" =>
                                     HasExport(project[i].module, LoadExport)
                ELSE /\ UnitsOf(i) = {}
                     /\ ~WrittenManifest[i].prerendered
                     /\ WrittenManifest[i].prerenderedFile = Null
                     /\ WrittenManifest[i].prerenderedCount = Null

\* a finished pass in which the first route had no default export and, in the second,
\* load() answered the first page with a Response and the second page was written
C20_Witness ==
    /\ PassDone
    /\ Len(project) = 2
    /\ ~HasExport(project[1].module, DefaultExport)
    /\ \E u, v \in UnitsOf(2) :
          u.page = 1 /\ u.outcome = "skipped" /\ v.page = 2 /\ v.outcome = "written"


-----------------------------------------------------------------------------
(* runMiddleware: invocation counts *)

\* C29 (as claimed): within one runMiddleware call the final handler is invoked at
\* most once and each middleware of the chain is invoked at most once, whatever the
\* middleware do (also when one calls next() more than once).
C29_EachInvokedAtMostOnce ==
    /\ handlerRuns <= 1
    /\ \A i \in 1..Len(chain) : mwRuns[chain[i]] <= 1

\* each middleware of the chain is started at most once: index only grows
C29_MiddlewareAtMostOnce == \A i \in 1..Len(chain) : mwRuns[chain[i]] <= 1

\* the handler runs at most once when no middleware calls next() twice
C29_HandlerOnceWhenNextCalledAtMostOnce == NextCalledAtMostOnce => handlerRuns <= 1


-----------------------------------------------------------------------------
(* buildMatcher: no entry is lost *)

Reachable(r) ==
    \E p \in Pathnames :
        LET m == match(root, p) IN m # Null /\ The(m).entry.id = r.id

\* C25 (as claimed): the matcher never silently drops a route: every entry of a
\* manifest given to buildMatcher is returned by match for at least one pathname,
\* also when two entries occupy the same trie position.  Stated for manifests whose
\* patterns are pairwise distinct.
C25_NoRouteDropped ==
    (MatcherBuilt /\ DistinctPatterns(routes)) =>
        \A i \in 1..Len(routes) : Reachable(routes[i])

\* the same for manifests whose entries occupy pairwise different trie positions
C25_WhenDistinctShapes ==
    (MatcherBuilt /\ DistinctShapes(routes)) => \A i \in 1..Len(routes) : Reachable(routes[i])


-----------------------------------------------------------------------------
(* Layouts in the manifest and in production rendering *)

\* route.layoutId: the nearest layout of the route, as the Router assigns it
layoutIdOf(layouts, route) ==
    LET ls == resolveLayouts(layouts, route)
    IN IF ls = <<>> THEN Null ELSE Some(ls[Len(ls)].id)

\* the layout fields of the page entry that assembleManifest builds:
\* layouts: route.layoutId ? [route.layoutId] : undefined; layoutEntries and
\* layoutClientEntries are not assigned, and no layout is a server entry point
manifestLayoutFields(layoutId) ==
    [layouts |-> IF layoutId # Null THEN Some(<<The(layoutId)>>) ELSE Null,
     layoutEntries |-> Null]

\* handlePageRouteInner: the layouts whose components are handed to renderToHTML,
\* one for each path of entry.layoutEntries
layoutComponents(entry) ==
    IF entry.layoutEntries # Null /\ Len(The(entry.layoutEntries)) > 0
    THEN The(entry.layoutEntries)
    ELSE <<>>

BuiltLayoutFields(route) == manifestLayoutFields(layoutIdOf(scanResult.layouts, route))

\* C23 (as claimed): for a page route with a non-empty layout chain, the entry that
\* build() produces makes production render with the layouts that Router.match
\* reports for the route, outermost first.
C23_ProdLayoutsAsInDev ==
    (LayoutMatched /\ The(layoutMatch[1]).layouts # <<>>) =>
        LET m == The(layoutMatch[1])
        IN layoutComponents(BuiltLayoutFields(m.route)) =
               [i \in 1..Len(m.layouts) |-> m.layouts[i].id]

\* what the entry does carry: the id of the nearest layout of the chain
C23_ManifestNamesNearestLayout ==
    LayoutMatched =>
        LET m == The(layoutMatch[1])
            f == BuiltLayoutFields(m.route)
        IN IF m.layouts = <<>> THEN f.layouts = Null
           ELSE f.layouts = Some(<<m.layouts[Len(m.layouts)].id>>)


\* C21 (as claimed): when the import that export detection does of a compiled page
\* module throws, build() does not fail: the route is skipped with a warning, the
\* other routes are processed and manifest.json is produced.
C21_ImportFailureIsAWarning ==
    detectionImportThrows(project) => ~(build.pc = "aborted" /\ build.importFailed)

\* every build in which no detection import, load() or render throws ends with a
\* written manifest
C21_BuildFailsOnlyOnThrow == build.pc = "aborted" => build.threw

BuildSucceeded == build.pc = "done"

\* C22: manifest.json is written exactly once per successful build and not before the
\* prerender pass has finished (at once, with version 1 and no routes, nothing bundled
\* and nothing prerendered, when the scan finds no route), and the persisted manifest
\* is the manifest of the BuildResult.
C22_ManifestWrittenOnceAtTheEnd ==
    /\ build.pc \in {"start", "route", "page", "aborted"} =>
          build.writes = 0 /\ dist.manifest = Null
    /\ BuildSucceeded =>
          /\ build.writes = 1
          /\ dist.manifest # Null
          /\ dist.manifest = build.result
          /\ project = <<>> =>
                /\ dist.manifest = Some([version |-> 1, routes |-> <<>>])
                /\ dist.modules = <<>>
                /\ dist.files = {}
                /\ build.pages = {}

\* a successful build whose prerender pass changed an entry, and one of no route
C22_Witness ==
    /\ BuildSucceeded
    /\ \E i \in 1..Len(project) : build.manifest[i] # pageEntries(project)[i]

C22_EmptyWitness == BuildSucceeded /\ project = <<>>


-----------------------------------------------------------------------------
(* The static step of handleRequest *)

ServedFile == RequestDone /\ res.sent # Null /\ Sent.body[1] = "file"

\* C27 (as claimed): whatever the request URL, also with ".." segments, the static
\* step only serves files located inside dist/client.
C27_StaticFilesInsideClientDir == ServedFile => Sent.body[2] \in dist.files

\* the same for request URLs without a ".." segment
C27_WhenNoDotDot ==
    (ServedFile /\ \A i \in 1..Len(Split(req.cleanUrl, SLASH)) :
                      Split(req.cleanUrl, SLASH)[i] # <<".", ".">>) =>
        Sent.body[2] \in dist.files


-----------------------------------------------------------------------------
(* build() and ProdServer for routes under a middleware.ts *)

\* an element of route.middlewarePaths: the path of the middleware source file
MiddlewareSourcePath == <<"src/routes/middleware.ts", 0>>

UnderMiddleware(r) == [r EXCEPT !.middleware = <<MiddlewareSourcePath>>]

\* projects of one prerendered route, with and without a middleware.ts at the root
GuardedProjects ==
    {<<r>> : r \in StaticRoutes \cup DynamicRoutes}
    \cup {<<UnderMiddleware(r)>> : r \in StaticRoutes \cup DynamicRoutes}

GuardStart ==
    /\ project \in GuardedProjects
    /\ build = BuildStart

GuardNext ==
    \/ AssembleManifest
    \/ BeginRoute
    \/ RenderPage
    \/ FinishRoute
    \/ WriteManifest
    \/ Construct
    \/ Start
    \/ Visit
    \/ LoadMiddlewareChain
    \/ RunMiddlewareChain
    \/ RouteHandler
    \/ SendWebResponse
    \/ AppendCookies
    \/ CatchError

EntryModules(e) ==
    (IF e.ssrEntry = Null THEN {} ELSE {The(e.ssrEntry)})
    \cup (IF e.serverEntry = Null THEN {} ELSE {The(e.serverEntry)})
EntryMiddleware(e) ==
    IF e.middleware = Null THEN {}
    ELSE {The(e.middleware)[k] : k \in 1..Len(The(e.middleware))}

\* C28 (as claimed): every module reference that build() stores in a manifest entry
\* (ssrEntry/serverEntry and each path of middleware) names a module that the same
\* build wrote to dist/server, so that loading the middleware chain and the server
\* module of a matched route never fails on a missing module.
C28_ManifestReferencesAreBuilt ==
    /\ PassDone =>
          \A i \in 1..Len(project) :
              EntryModules(WrittenManifest[i]) \cup EntryMiddleware(WrittenManifest[i])
                  \subseteq DOMAIN dist.modules
    /\ (req.pc = "catch" /\ req.entry # Null) =>
          EntryModules(MatchedEntry) \cup EntryMiddleware(MatchedEntry)
              \subseteq DOMAIN dist.modules

\* the same for ssrEntry/serverEntry alone
C28_ServerEntriesAreBuilt ==
    PassDone =>
        \A i \in 1..Len(project) : EntryModules(WrittenManifest[i]) \subseteq DOMAIN dist.modules

\* the prerendered HTML of a route that has a middleware chain was sent
SentGuardedPage ==
    /\ RequestDone
    /\ res.sent # Null
    /\ Sent.body[1] = "file"
    /\ Sent.body[2] \in DOMAIN build.content
    /\ project[build.content[Sent.body[2]].route].middleware # <<>>

\* C26 (as claimed): the HTML of a prerendered page whose route has a middleware chain
\* is only sent by a request that ran the chain up to the route handler, also when the
\* request addresses the prerendered file itself.
C26_MiddlewareGuardsPrerenderedHtml == SentGuardedPage => events.handlerReached


-----------------------------------------------------------------------------
(* Prerendered routes with a dynamic or a catch-all parameter: from the param *)
(* sets to the files and back through the production matcher                  *)

\* src/routes/a/[...x]/page.tsx with prerender.paths()
CatchAllRoutes ==
    {PrerenderRoute(<<"/", "a", "/", "[", ".", ".", ".", "x", "]">>,
                    <<"/", "a", "/", "*", "x">>, m, Some(ps)) :
        m \in {n \in PrerenderModules : ~n.broken /\ HasExport(n, DefaultExport)},
        ps \in SeqsUpTo(ParamSets, MaxPaths)}

RoundTripProjects ==
    {<<r>> : r \in CatchAllRoutes}
    \cup {<<r>> : r \in {d \in DynamicRoutes :
                            ~d.module.broken /\ HasExport(d.module, DefaultExport)}}

RoundTripStart ==
    /\ project \in RoundTripProjects
    /\ build = BuildStart

RoundTripNext ==
    \/ AssembleManifest
    \/ BeginRoute
    \/ RenderPage
    \/ FinishRoute
    \/ WriteManifest
    \/ Construct
    \/ Start
    \/ Visit
    \/ LoadMiddlewareChain
    \/ RunMiddlewareChain
    \/ RouteHandler
    \/ SendWebResponse
    \/ AppendCookies

WrittenUnits == {u \in build.pages : u.outcome = "written"}
UnitParams(u) == DeclaredPages(u.route)[u.page]
UnitPathname(u) == prerenderPathname(project[u.route].pattern, UnitParams(u))
HasPlaceholder(p) == \E i \in 1..Len(p) : p[i] \in {":", "*"}

\* the pathname derived for a written page has no placeholder left, the production
\* matcher resolves it to the page's route with the page's params, and a request
\* for it is answered with the file written for the page
RoundTrips(u) ==
    /\ ~HasPlaceholder(UnitPathname(u))
    /\ server = "listening" =>
          LET m == match(matcher, UnitPathname(u))
          IN /\ m # Null
             /\ The(m).entry.id = project[u.route].id
             /\ The(m).params = UnitParams(u)
    /\ (RequestDone /\ req.cleanUrl = UnitPathname(u)) =>
          /\ res.sent # Null
          /\ Sent.status = 200
          /\ Sent.body = FileBody(u.file)

\* C30 (as claimed): for every prerendered route with dynamic and/or catch-all
\* parameters and every param set of paths(), the pathname that build() derives has
\* no unsubstituted placeholder and the production matcher resolves it to the same
\* route with the same params, so the file written for it is the one served.
C30_PrerenderPathRoundTrip ==
    PassDone => \A u \in WrittenUnits : RoundTrips(u)

\* the same for routes whose pattern has no catch-all parameter
C30_WhenNoCatchAll ==
    PassDone =>
        \A u \in WrittenUnits :
            ~HasCatchAll(PathSegments(project[u.route].pattern)) => RoundTrips(u)


-----------------------------------------------------------------------------
(* ProdServer.importModule under concurrent requests *)

MaxCallers == 2
MaxCalls == 2

Callers == 1..MaxCallers
ModulePaths == {RouteModulePath, MiddlewarePath(1)}

EmptyModuleCache == [p \in ModulePaths |-> Null]

\* importModule that starts the import again when the cached promise is rejected
importModule_RetryRejected(mc, started, path) ==
    IF mc[path] # Null /\ started[The(mc[path])].state # "rejected"
    THEN [moduleCache |-> mc, imports |-> started, promise |-> The(mc[path])]
    ELSE [moduleCache |-> [mc EXCEPT ![path] = Some(Len(started) + 1)],
          imports |-> Append(started, [path |-> path, state |-> "pending"]),
          promise |-> Len(started) + 1]

\* importModule(absolutePath): get, and when nothing is cached import() and set,
\* with no await in between
importModule(mc, started, path) ==
    IF mc[path] # Null
    THEN [moduleCache |-> mc, imports |-> started, promise |-> The(mc[path])]
    ELSE [moduleCache |-> [mc EXCEPT ![path] = Some(Len(started) + 1)],
          imports |-> Append(started, [path |-> path, state |-> "pending"]),
          promise |-> Len(started) + 1]

ImportStart ==
    /\ moduleCache = EmptyModuleCache
    /\ imports = <<>>
    /\ callers = [c \in Callers |-> [awaiting |-> Null, calls |-> 0]]
    /\ handed = {}

ImportIdle ==
    /\ moduleCache = <<>>
    /\ imports = <<>>
    /\ callers = <<>>
    /\ handed = {}

\* a request calls this.importModule(path) and awaits the result
CallImportModule(c, path) ==
    /\ callers[c].awaiting = Null
    /\ callers[c].calls < MaxCalls
    /\ LET r == importModule(moduleCache, imports, path)
       IN /\ moduleCache' = r.moduleCache
          /\ imports' = r.imports
          /\ callers' = [callers EXCEPT ![c] = [awaiting |-> Some(r.promise),
                                                calls |-> @.calls + 1]]
          /\ handed' = handed \cup
                {[caller |-> c, path |-> path, promise |-> r.promise,
                  seen |-> IF moduleCache[path] = Null THEN "none"
                           ELSE imports[The(moduleCache[path])].state]}
    /\ UNCHANGED <<matchVars, mwVars, scanVars, layoutVars, cacheVars, serveVars, ssgVars>>

Call == \E c \in Callers, path \in ModulePaths : CallImportModule(c, path)

\* an import() settles: the module is evaluated, or evaluation throws
SettleImport ==
    /\ \E i \in 1..Len(imports), outcome \in {"fulfilled", "rejected"} :
          /\ imports[i].state = "pending"
          /\ imports' = [imports EXCEPT ![i].state = outcome]
    /\ UNCHANGED <<moduleCache, callers, handed>>
    /\ UNCHANGED <<matchVars, mwVars, scanVars, layoutVars, cacheVars, serveVars, ssgVars>>

\* the await of a request continues once the promise is settled
Resume ==
    /\ \E c \in Callers :
          /\ callers[c].awaiting # Null
          /\ imports[The(callers[c].awaiting)].state # "pending"
          /\ callers' = [callers EXCEPT ![c].awaiting = Null]
    /\ UNCHANGED <<moduleCache, imports, handed>>
    /\ UNCHANGED <<matchVars, mwVars, scanVars, layoutVars, cacheVars, serveVars, ssgVars>>

ImportNext ==
    \/ Call
    \/ SettleImport
    \/ Resume

ImportsOf(path) == {i \in 1..Len(imports) : imports[i].path = path}

\* C24: during the lifetime of a ProdServer, under any interleaving of concurrent
\* requests, the import of a module path is started at most once, every importModule
\* call for the path receives the promise that is cached for it, and a cache entry is
\* never removed or replaced, also when the import failed.
C24_ImportStartedAtMostOnce ==
    /\ \A path \in ModulePaths : Cardinality(ImportsOf(path)) <= 1
    /\ \A h \in handed :
          /\ moduleCache[h.path] = Some(h.promise)
          /\ imports[h.promise].path = h.path

\* two requests received the promise of the same import while it was pending, and a
\* request that asked for a module after its import had failed received the cached
\* rejected promise
C24_Witness ==
    /\ \E g, h \in handed :
          g.caller # h.caller /\ g.path = h.path /\ g.seen = "none" /\ h.seen = "pending"
    /\ \E h \in handed : h.seen = "rejected"

-----------------------------------------------------------------------------
(* Specifications *)

AddedIdle == LayoutIdle /\ CacheIdle /\ ServeIdle /\ SsgIdle /\ ImportIdle

MatchInit == MatchStart /\ MwIdle /\ ScanIdle /\ AddedIdle
MwInit == MatchIdle /\ MwStart /\ ScanIdle /\ AddedIdle
ScanInit == MatchIdle /\ MwIdle /\ ScanStart /\ AddedIdle
LayoutInit == MatchIdle /\ MwIdle /\ ScanIdle /\ LayoutStart /\ CacheIdle /\ ServeIdle /\ SsgIdle /\ ImportIdle
CacheInit == MatchIdle /\ MwIdle /\ ScanIdle /\ LayoutIdle /\ CacheStart /\ ServeIdle /\ SsgIdle /\ ImportIdle
GuardInit == MatchIdle /\ MwIdle /\ ScanIdle /\ LayoutIdle /\ CacheIdle /\ ServeIdle /\ GuardStart /\ ImportIdle
RoundTripInit == MatchIdle /\ MwIdle /\ ScanIdle /\ LayoutIdle /\ CacheIdle /\ ServeIdle /\ RoundTripStart /\ ImportIdle
ImportInit == MatchIdle /\ MwIdle /\ ScanIdle /\ LayoutIdle /\ CacheIdle /\ ServeIdle /\ SsgIdle /\ ImportStart
SsgInit == MatchIdle /\ MwIdle /\ ScanIdle /\ LayoutIdle /\ CacheIdle /\ ServeIdle /\ SsgStart /\ ImportIdle
ServeInit == MatchIdle /\ MwIdle /\ ScanIdle /\ LayoutIdle /\ CacheIdle /\ ServeStart /\ SsgIdle /\ ImportIdle

Spec == MatchInit /\ [][MatchNext]_vars
MwSpec == MwInit /\ [][MwNext]_vars
ScanSpec == ScanInit /\ [][ScanNext]_vars
LayoutSpec == LayoutInit /\ [][LayoutNext]_vars
CacheSpec == CacheInit /\ [][CacheNext]_vars
ServeSpec == ServeInit /\ [][ServeNext]_vars
SsgSpec == SsgInit /\ [][SsgNext]_vars
GuardSpec == GuardInit /\ [][GuardNext]_vars
RoundTripSpec == RoundTripInit /\ [][RoundTripNext]_vars
ImportSpec == ImportInit /\ [][ImportNext]_vars

====
